---- MODULE Spec2Model ----
(***************************************************************************)
(* A model of the EAOS autonomy core: the event bus (core/events.js), the  *)
(* plugin manager (core/plugins.js) and the autonomy engine                *)
(* (core/autonomy.js).  The specifications are SpecBus, SpecPlugins,       *)
(* SpecCycle and SpecTriggers; each moves the variables of its subsystem   *)
(* and leaves the others as its initial condition set them.                *)
(***************************************************************************)
EXTENDS Integers, Sequences, FiniteSets, TLC

VARIABLES
    \* ---- event bus -------------------------------------------------------
    listeners,      \* EventBus.listeners: Map pattern -> Set, in insertion order
    onceListeners,  \* EventBus.onceListeners: Map event -> Set, in insertion order
    history,        \* EventBus.history: the emitted event names, newest last
    maxHistory,     \* EventBus.maxHistory
    armed,          \* closure state of the re-emitting handler (TRUE before its first call)
    regs,           \* number of on/once calls made so far
    subOrder,       \* the subscriptions held, in the order of the on/once calls that made them
    busOp,          \* what the last emit did; idle after any other operation (observation)
    onceCalls       \* per once subscription: invocations since it was registered (observation)

VARIABLES
    \* ---- plugin manager --------------------------------------------------
    plugins,        \* PluginManager.plugins: plugin id -> Plugin.state ("absent": no entry)
    hooks,          \* PluginManager.hooks: hook type -> array of hook entries
    initialized,    \* PluginManager.initialized
    manifests,      \* the plugin.json files and entry modules under the plugins directory
    regOrder,       \* the hook entries in the order registerPluginHooks pushed them (observation)
    pmOp,           \* what the last plugin manager operation did (observation)
    hookCall        \* an executeHooks call that is suspended inside a handler

VARIABLES
    \* ---- autonomy engine -------------------------------------------------
    engineState,    \* AutonomyEngine.state
    hdmLevel,       \* AutonomyEngine.hdmLevel
    triggers,       \* AutonomyEngine.triggers: the Trigger objects in insertion order
    trigStamps,     \* the entries appended to AutonomyEngine.triggers so far
    timers,         \* per cycle type, the armed timers among AutonomyEngine.timers
    cycleHistory,   \* AutonomyEngine.cycleHistory
    currentCycle,   \* AutonomyEngine.currentCycle: the runCycle call whose report it is (0: null)
    lastCycleRun,   \* AutonomyEngine.lastCycleRun
    subscribed,     \* the '*' subscriptions start() has made for processEvent
    now,            \* the clock
    cycles,         \* the runCycle calls made so far
    procs,          \* the processEvent calls made so far
    disk,           \* .eaos/autonomy/state.json
    writes          \* the fs.writeJson calls made on state.json, each with its position

VARIABLES
    \* ---- the clock and the schedule ---------------------------------------
    weeklyRun,      \* a scheduleNextCycle('weekly') call: now, the schedule, nextRun
    loads,          \* the load(id) calls made one beside the other, each with its position
    taskRun         \* the task loop of a cycle and the handler invocations it has started

busVars == <<listeners, onceListeners, history, maxHistory, armed, regs, subOrder, busOp,
             onceCalls>>

pmVars == <<plugins, hooks, initialized, manifests, regOrder, pmOp, hookCall>>

engVars == <<engineState, hdmLevel, triggers, trigStamps, timers, cycleHistory, currentCycle,
             lastCycleRun, subscribed, now, cycles, procs, disk, writes>>

sideVars == <<weeklyRun, loads, taskRun>>

vars == <<busVars, pmVars, engVars, sideVars>>

nonBusVars == <<pmVars, engVars, sideVars>>

nonPmVars == <<busVars, engVars, sideVars>>

nonEngVars == <<busVars, pmVars, sideVars>>

(***************************************************************************)
(* Bounds of the model.                                                    *)
(***************************************************************************)
MaxRegs == 2        \* on/once calls made on the bus in one run
HistoryCap == 1     \* the value given to EventBus.maxHistory
MaxCycles == 1      \* runCycle calls that get past the engine state check
MaxStarts == 1      \* start() calls that find the engine not running
MaxTime == 1        \* the last reading of the clock
MaxFaults == 1      \* tasks of one cycle whose handler fails at the first attempt
MaxEvents == 1      \* processEvent calls
MaxStamps == 5      \* entries appended to the trigger table
MaxOverlap == 2     \* runCycle calls in a run that looks at cycles side by side
HoursPerDay == 2    \* hours of a day of the small calendar
MinutesPerHour == 2 \* minutes of an hour of the small calendar
WeeksAhead == 3     \* weeks of the clock
MaxChain == 4       \* processEvent calls that follow from one external event
MaxLoads == 3       \* load calls made one beside the other
MaxLate == 2        \* attempts of a cycle that end with a TimeoutError

(***************************************************************************)
(* Numbers of the source.                                                  *)
(***************************************************************************)
ENGINE_MAX_HISTORY == 100
SAVED_HISTORY == 10
TASK_MAX_ATTEMPTS == 2

(***************************************************************************)
(* Generic helpers.                                                        *)
(***************************************************************************)
Range(s) == {s[i] : i \in 1..Len(s)}

Remove(s, x) == SelectSeq(s, LAMBDA y : y # x)

Drop(s, k) == SubSeq(s, k + 1, Len(s))

(***************************************************************************)
(* Event names and patterns are sequences of characters.                   *)
(***************************************************************************)
NameAB == <<"a", ":", "b">>
NameADotB == <<"a", ".", "b">>
PatStar == <<"*">>
PatADotStar == <<"a", ".", "*">>

Names == {NameAB, NameADotB}
Patterns == Names \cup {PatStar, PatADotStar}

(***************************************************************************)
(* EventBus.matchesPattern, computed as the code computes it: split the    *)
(* pattern on '*', escape each piece, join the pieces with '.*' and test   *)
(* the anchored regular expression.  A regex is a sequence of atoms:       *)
(* [lit |-> c] matches the character c, [any |-> TRUE] matches any one     *)
(* character, [star |-> TRUE] is '.*'.                                     *)
(***************************************************************************)
RECURSIVE SplitStar(_, _)
SplitStar(pat, cur) ==
    IF pat = <<>> THEN <<cur>>
    ELSE IF Head(pat) = "*" THEN <<cur>> \o SplitStar(Tail(pat), <<>>)
    ELSE SplitStar(Tail(pat), Append(cur, Head(pat)))

\* The piece as regex source without the escaping: '.' stays a metacharacter.
EscapeNone(piece) ==
    [i \in 1..Len(piece) |->
        IF piece[i] = "." THEN [kind |-> "any", c |-> "."]
        ELSE [kind |-> "lit", c |-> piece[i]]]

\* s.replace(/[.*+?^${}()|[\]\\]/g, '\\$&'): every character of the piece is a literal.
EscapePiece(piece) == [i \in 1..Len(piece) |-> [kind |-> "lit", c |-> piece[i]]]

RECURSIVE JoinStar(_)
JoinStar(pieces) ==
    IF Len(pieces) = 1 THEN EscapePiece(pieces[1])
    ELSE EscapePiece(pieces[1]) \o <<[kind |-> "star", c |-> "*"]>> \o JoinStar(Tail(pieces))

RECURSIVE RegexTest(_, _)
RegexTest(re, s) ==
    IF re = <<>> THEN s = <<>>
    ELSE IF Head(re).kind = "star"
        THEN \E k \in 0..Len(s) : RegexTest(Tail(re), Drop(s, k))
    ELSE /\ s # <<>>
         /\ (Head(re).kind = "any" \/ Head(re).c = Head(s))
         /\ RegexTest(Tail(re), Tail(s))

matchesPattern(event, pattern) ==
    IF pattern = PatStar THEN TRUE
    ELSE IF "*" \notin Range(pattern) THEN event = pattern
    ELSE RegexTest(JoinStar(SplitStar(pattern, <<>>)), event)

(***************************************************************************)
(* The subscription tables.  A JavaScript Map keeps its keys, and a Set    *)
(* its members, in insertion order: a table is a sequence of               *)
(* [pat, cbs] entries and cbs a sequence without repetitions.              *)
(***************************************************************************)
Handlers == {"hOk", "hThrow", "hReemit"}

\* Callbacks that change the subscriptions of the event they are called with,
\* before their first await: hSub calls on(event, hOk), hUnsub calls off(event, hOk).
Subscribers == {"hSub", "hUnsub"}

MapHas(m, k) == \E i \in 1..Len(m) : m[i].pat = k

MapGet(m, k) == IF MapHas(m, k) THEN m[CHOOSE i \in 1..Len(m) : m[i].pat = k].cbs ELSE <<>>

MapDelete(m, k) == SelectSeq(m, LAMBDA e : e.pat # k)

SetAdd(cbs, h) == IF h \in Range(cbs) THEN cbs ELSE Append(cbs, h)

\* if (!map.has(event)) map.set(event, new Set()); map.get(event).add(callback)
MapAdd(m, k, h) ==
    LET m1 == IF MapHas(m, k) THEN m ELSE Append(m, [pat |-> k, cbs |-> <<>>])
    IN [i \in 1..Len(m1) |->
           IF m1[i].pat = k THEN [m1[i] EXCEPT !.cbs = SetAdd(@, h)] ELSE m1[i]]

\* set.delete(callback), the key kept
MapRemoveKeep(m, k, h) ==
    [i \in 1..Len(m) |-> IF m[i].pat = k THEN [m[i] EXCEPT !.cbs = Remove(@, h)] ELSE m[i]]

\* set.delete(callback); if (set.size === 0) map.delete(event)
MapRemove(m, k, h) ==
    IF ~MapHas(m, k) THEN m
    ELSE IF Remove(MapGet(m, k), h) = <<>> THEN MapDelete(m, k)
    ELSE MapRemoveKeep(m, k, h)

\* The subscriptions of a table as <<pattern, handler>> pairs.
Subs(m) == UNION {{<<m[i].pat, h>> : h \in Range(m[i].cbs)} : i \in 1..Len(m)}

(***************************************************************************)
(* emit and safeCall.  Everything emit does before its final               *)
(* `await Promise.all` is synchronous: safeCall runs the callback inside   *)
(* the loop, and a callback that emits runs the nested emit inside that    *)
(* call.  The operators below thread the bus through this call tree:       *)
(*   b.ls, b.once, b.hist, b.armed   the bus fields and the closure state  *)
(*   b.calls   the invocations made, in order: [h, ev, eid, via]           *)
(*   b.emits   the emit calls made, in order: [ev, by, onSubs, onceSubs]   *)
(*   b.oc      invocations per once subscription                           *)
(*   b.failed  an exception is propagating out of the dispatch             *)
(* Three handlers stand for the callbacks a program registers: hOk         *)
(* returns, hThrow throws, and hReemit emits the event it received, once   *)
(* (its first call), from inside the dispatch.                             *)
(***************************************************************************)
Bump(n) == IF n < 2 THEN n + 1 ELSE 2

\* A history that, when full, turns the new entry away.
PushHistoryKeepOldest(hist, cap, ev) ==
    IF Len(hist) >= cap THEN hist ELSE Append(hist, ev)

\* this.history.push(eventData); if (this.history.length > this.maxHistory) this.history.shift()
PushHistory(hist, cap, ev) ==
    LET h1 == Append(hist, ev)
    IN IF Len(h1) > cap THEN Tail(h1) ELSE h1

RECURSIVE emit(_, _, _)

\* on(event, callback) called by a callback during the dispatch.
onWithin(b, p, h) ==
    [b EXCEPT !.ls = MapAdd(@, p, h),
              !.order = IF <<p, h>> \in Subs(b.ls) THEN @
                        ELSE Append(@, [pat |-> p, h |-> h, once |-> FALSE])]

\* off(event, callback) called by a callback during the dispatch.
offWithin(b, p, h) ==
    LET ls == MapRemove(b.ls, p, h)
        once == MapRemove(b.once, p, h)
    IN [b EXCEPT !.ls = ls, !.once = once,
                 !.order = SelectSeq(@, LAMBDA s : <<s.pat, s.h>> \in
                                            Subs(IF s.once THEN once ELSE ls))]

\* safeCall without its try/catch: the callback's exception leaves the dispatch loop.
safeCallUncaught(b, h, ev, eid, via) ==
    LET b1 == [b EXCEPT !.calls = Append(@, [h |-> h, ev |-> ev, eid |-> eid, via |-> via]),
                        !.oc = IF via = "once" THEN [@ EXCEPT ![<<ev, h>>] = Bump(@)] ELSE @]
    IN CASE h = "hOk" -> b1
         [] h = "hThrow" -> [b1 EXCEPT !.failed = TRUE]
         [] h = "hReemit" ->
              IF b1.armed THEN emit([b1 EXCEPT !.armed = FALSE], ev, h) ELSE b1
         [] h = "hSub" -> onWithin(b1, ev, "hOk")
         [] h = "hUnsub" -> offWithin(b1, ev, "hOk")

\* try { await callback(eventData) } catch (error) { console.error(...) }
safeCall(b, h, ev, eid, via) ==
    LET b1 == [b EXCEPT !.calls = Append(@, [h |-> h, ev |-> ev, eid |-> eid, via |-> via]),
                        !.oc = IF via = "once" THEN [@ EXCEPT ![<<ev, h>>] = Bump(@)] ELSE @]
    IN CASE h = "hOk" -> b1
         [] h = "hThrow" -> b1
         [] h = "hReemit" ->
              IF b1.armed THEN emit([b1 EXCEPT !.armed = FALSE], ev, h) ELSE b1
         [] h = "hSub" -> onWithin(b1, ev, "hOk")
         [] h = "hUnsub" -> offWithin(b1, ev, "hOk")

\* for (const callback of callbacks) promises.push(this.safeCall(callback, eventData))
RECURSIVE DispatchSet(_, _, _, _, _)
DispatchSet(b, cbs, ev, eid, via) ==
    IF cbs = <<>> \/ b.failed THEN b
    ELSE DispatchSet(safeCall(b, Head(cbs), ev, eid, via), Tail(cbs), ev, eid, via)

\* The place of h in cbs, or 0.
IndexOf(cbs, h) ==
    IF h \in Range(cbs) THEN CHOOSE i \in 1..Len(cbs) : cbs[i] = h ELSE 0

\* for (const callback of exactListeners): the iterator of the Set under the
\* event's name, which a callback may add to or delete from while the loop is
\* at it.  The loop goes on behind the callback it has just called (behind
\* the place that callback had, if it deleted itself).
RECURSIVE DispatchExact(_, _, _, _)
DispatchExact(b, ev, eid, i) ==
    LET cbs == MapGet(b.ls, ev)
    IN IF i > Len(cbs) \/ b.failed THEN b
       ELSE LET h == cbs[i]
                b1 == safeCall(b, h, ev, eid, "exact")
                at == IndexOf(MapGet(b1.ls, ev), h)
            IN DispatchExact(b1, ev, eid, IF at = 0 THEN i ELSE at + 1)

\* for (const [pattern, callbacks] of this.listeners)
\*   if (pattern !== event && this.matchesPattern(event, pattern)) ...
RECURSIVE DispatchWildcards(_, _, _, _)
DispatchWildcards(b, entries, ev, eid) ==
    IF entries = <<>> \/ b.failed THEN b
    ELSE LET e == Head(entries)
             b1 == IF e.pat # ev /\ matchesPattern(ev, e.pat)
                   THEN DispatchSet(b, e.cbs, ev, eid, "wild")
                   ELSE b
         IN DispatchWildcards(b1, Tail(entries), ev, eid)

\* this.onceListeners.get(event): the once listeners under the event's own name.
OnceLookup(tbl, ev) == MapGet(tbl, ev)

\* const onceListeners = this.onceListeners.get(event);
\* if (onceListeners) { for (...) safeCall(...); this.onceListeners.delete(event) }
OncePhase(b, ev, eid) ==
    LET cbs == OnceLookup(b.once, ev)
        b1 == [b EXCEPT !.emits[eid].onceSubs = Subs(b.once)]
        b2 == DispatchSet(b1, cbs, ev, eid, "once")
    IN IF MapHas(b.once, ev) /\ ~b2.failed
       THEN [b2 EXCEPT !.once = MapDelete(@, ev)]
       ELSE b2

emit(b, ev, by) ==
    LET eid == Len(b.emits) + 1
        b0 == [b EXCEPT !.hist = PushHistory(@, b.cap, ev),
                        !.emits = Append(@, [ev |-> ev, by |-> by,
                                             onSubs |-> Subs(b.ls), onceSubs |-> {}])]
        b1 == DispatchExact(b0, ev, eid, 1)
        b2 == DispatchWildcards(b1, b1.ls, ev, eid)
    IN IF b2.failed THEN b2 ELSE OncePhase(b2, ev, eid)

(***************************************************************************)
(* The bus operations.                                                     *)
(***************************************************************************)
\* The subscriptions of order that the two tables still hold.
StillHeld(order, ls, once) ==
    SelectSeq(order, LAMBDA s : <<s.pat, s.h>> \in Subs(IF s.once THEN once ELSE ls))

NoOnceCalls == [s \in Patterns \X Handlers |-> 0]

BusIdle == [op |-> "idle", ev |-> <<>>, calls |-> <<>>, emits |-> <<>>, failed |-> FALSE]

InitBus ==
    /\ listeners = <<>>
    /\ onceListeners = <<>>
    /\ history = <<>>
    /\ maxHistory = HistoryCap
    /\ armed = TRUE
    /\ regs = 0
    /\ subOrder = <<>>
    /\ busOp = BusIdle
    /\ onceCalls = NoOnceCalls

On(p, h) ==
    /\ regs < MaxRegs
    /\ regs' = regs + 1
    /\ listeners' = MapAdd(listeners, p, h)
    /\ subOrder' = IF <<p, h>> \in Subs(listeners) THEN subOrder
                   ELSE Append(subOrder, [pat |-> p, h |-> h, once |-> FALSE])
    /\ busOp' = BusIdle
    /\ UNCHANGED <<onceListeners, history, maxHistory, armed, onceCalls>>
    /\ UNCHANGED nonBusVars

Once(p, h) ==
    /\ regs < MaxRegs
    /\ regs' = regs + 1
    /\ onceListeners' = MapAdd(onceListeners, p, h)
    /\ subOrder' = IF <<p, h>> \in Subs(onceListeners) THEN subOrder
                   ELSE Append(subOrder, [pat |-> p, h |-> h, once |-> TRUE])
    /\ onceCalls' = IF <<p, h>> \in Subs(onceListeners) THEN onceCalls
                    ELSE [onceCalls EXCEPT ![<<p, h>>] = 0]
    /\ busOp' = BusIdle
    /\ UNCHANGED <<listeners, history, maxHistory, armed>>
    /\ UNCHANGED nonBusVars

Off(p, h) ==
    /\ <<p, h>> \in Subs(listeners) \cup Subs(onceListeners)
    /\ listeners' = MapRemove(listeners, p, h)
    /\ onceListeners' = MapRemove(onceListeners, p, h)
    /\ subOrder' = StillHeld(subOrder, listeners', onceListeners')
    /\ busOp' = BusIdle
    /\ UNCHANGED <<history, maxHistory, armed, regs, onceCalls>>
    /\ UNCHANGED nonBusVars

\* The function once() returns: () => { listeners = onceListeners.get(event); listeners?.delete(callback) }
OnceDisposer(p, h) ==
    /\ <<p, h>> \in Subs(onceListeners)
    /\ onceListeners' = MapRemoveKeep(onceListeners, p, h)
    /\ subOrder' = StillHeld(subOrder, listeners, onceListeners')
    /\ busOp' = BusIdle
    /\ UNCHANGED <<listeners, history, maxHistory, armed, regs, onceCalls>>
    /\ UNCHANGED nonBusVars

Emit(n) ==
    LET b == [ls |-> listeners, once |-> onceListeners, hist |-> history, cap |-> maxHistory,
              armed |-> armed, calls |-> <<>>, emits |-> <<>>, oc |-> onceCalls,
              failed |-> FALSE, order |-> subOrder]
        r == emit(b, n, "caller")
    IN /\ listeners' = r.ls
       /\ onceListeners' = r.once
       /\ subOrder' = StillHeld(r.order, r.ls, r.once)
       /\ history' = r.hist
       /\ armed' = r.armed
       /\ onceCalls' = r.oc
       /\ busOp' = [op |-> "emit", ev |-> n, calls |-> r.calls,
                    emits |-> r.emits, failed |-> r.failed]
       /\ UNCHANGED <<maxHistory, regs>>
       /\ UNCHANGED nonBusVars

Clear ==
    /\ listeners # <<>> \/ onceListeners # <<>>
    /\ listeners' = <<>>
    /\ onceListeners' = <<>>
    /\ subOrder' = <<>>
    /\ busOp' = BusIdle
    /\ UNCHANGED <<history, maxHistory, armed, regs, onceCalls>>
    /\ UNCHANGED nonBusVars

NextBus ==
    \/ \E p \in Patterns, h \in Handlers : On(p, h)
    \/ \E p \in Patterns, h \in Handlers : Once(p, h)
    \/ \E p \in Patterns, h \in Handlers : Off(p, h)
    \/ \E p \in Patterns, h \in Handlers : OnceDisposer(p, h)
    \/ \E n \in Names : Emit(n)
    \/ Clear

\* The bus with callbacks that subscribe and unsubscribe while they are dispatched.
NextDispatch ==
    \/ \E p \in Patterns, h \in Handlers \cup Subscribers : On(p, h)
    \/ \E p \in Patterns, h \in Handlers \cup Subscribers : Off(p, h)
    \/ \E n \in Names : Emit(n)

(***************************************************************************)
(* The plugin manager (core/plugins.js).                                   *)
(*                                                                         *)
(* Three plugins are on disk.  Each manifest lists its dependencies and    *)
(* the entries of its "hooks" object in the order they are written; the    *)
(* entry module of a plugin exports the methods named in "methods".        *)
(***************************************************************************)
PluginIds == {"pA", "pB", "pC"}

\* PLUGIN_STATES; a plugin with no entry in the registry is "absent" here.
STATE_LOADED == "loaded"

STATE_ENABLED == "enabled"

STATE_DISABLED == "disabled"

HOOK_TYPES == [BEFORE_CYCLE |-> "beforeCycle", AFTER_CYCLE |-> "afterCycle",
               BEFORE_TASK |-> "beforeTask", AFTER_TASK |-> "afterTask",
               ON_TRIGGER |-> "onTrigger", ON_ERROR |-> "onError"]

HookTypeValues == {HOOK_TYPES[k] : k \in DOMAIN HOOK_TYPES}

PluginEvents == [PLUGIN_LOAD |-> "plugin:load", PLUGIN_UNLOAD |-> "plugin:unload",
                 PLUGIN_ERROR |-> "plugin:error", PLUGIN_ENABLE |-> "plugin:enable",
                 PLUGIN_DISABLE |-> "plugin:disable"]

\* String.prototype.toUpperCase on the keys that occur in the manifests.
toUpperCase(k) ==
    CASE k = "before_cycle" -> "BEFORE_CYCLE"
      [] k = "BEFORE_CYCLE" -> "BEFORE_CYCLE"
      [] k = "after_task" -> "AFTER_TASK"
      [] k = "after_cycle" -> "AFTER_CYCLE"
      [] k = "beforeTask" -> "BEFORETASK"
      [] k = "before_cyclePriority" -> "BEFORE_CYCLEPRIORITY"
      [] k = "BEFORE_CYCLEPriority" -> "BEFORE_CYCLEPRIORITY"
      [] k = "after_taskPriority" -> "AFTER_TASKPRIORITY"

ManifestA == [dependencies |-> <<>>, main |-> TRUE,
              hooks |-> << [key |-> "before_cycle", val |-> "run"],
                           [key |-> "after_task", val |-> "run"],
                           [key |-> "after_cycle", val |-> "run"] >>,
              methods |-> {"run", "onEnable", "onUnload"}]

ManifestB == [dependencies |-> <<"pA">>, main |-> TRUE,
              hooks |-> << [key |-> "BEFORE_CYCLE", val |-> "run"],
                           [key |-> "BEFORE_CYCLEPriority", val |-> 5],
                           [key |-> "beforeTask", val |-> "run"] >>,
              methods |-> {"run", "onEnable", "onDisable"}]

ManifestC(deps) == [dependencies |-> deps, main |-> TRUE,
                    hooks |-> << [key |-> "before_cycle", val |-> "run"],
                                 [key |-> "before_cyclePriority", val |-> 5],
                                 [key |-> "after_task", val |-> "cleanup"],
                                 [key |-> "after_taskPriority", val |-> 9] >>,
                    methods |-> {"run", "onEnable"}]

\* pC stands alone, or closes the chain pC -> pB -> pA.
ForkManifests == [pA |-> ManifestA, pB |-> ManifestB, pC |-> ManifestC(<<>>)]

ChainManifests == [pA |-> ManifestA, pB |-> ManifestB, pC |-> ManifestC(<<"pB">>)]

\* pB and pC list each other.
CycleManifests == [pA |-> ManifestA,
                   pB |-> [ManifestB EXCEPT !.dependencies = <<"pA", "pC">>],
                   pC |-> ManifestC(<<"pB">>)]

ManifestSets == {ForkManifests, ChainManifests, CycleManifests}

\* An id with no directory under the plugins directory.
NoSuchPlugin == "ghost"

\* Plugin.dependencies of a plugin in the registry.
Dependencies(id) == manifests[id].dependencies

\* plugin.hooks[name], undefined when the manifest has no such key.
HooksGet(m, name, default) ==
    LET at == {i \in 1..Len(m.hooks) : m.hooks[i].key = name}
    IN IF at = {} THEN default ELSE m.hooks[CHOOSE i \in at : TRUE].val

\* Array.prototype.sort with (a, b) => b.priority - a.priority: a stable sort,
\* so an entry goes behind every entry whose priority is not lower.
RECURSIVE InsertByPriority(_, _)
InsertByPriority(sorted, e) ==
    IF sorted = <<>> THEN <<e>>
    ELSE IF Head(sorted).priority >= e.priority
        THEN <<Head(sorted)>> \o InsertByPriority(Tail(sorted), e)
    ELSE <<e>> \o sorted

RECURSIVE SortByPriority(_)
\* The array left as pushed.
SortUnchanged(entries) == entries

SortByPriority(entries) ==
    IF entries = <<>> THEN <<>>
    ELSE InsertByPriority(SortByPriority(SubSeq(entries, 1, Len(entries) - 1)),
                          entries[Len(entries)])

\* registerPluginHooks: st = [hooks, order], the hook table and the registration order.
RECURSIVE registerPluginHooks(_, _, _, _)
registerPluginHooks(st, id, m, i) ==
    IF i > Len(m.hooks) THEN st
    ELSE LET hookType == m.hooks[i].key
             handler == m.hooks[i].val
             upper == toUpperCase(hookType)
         IN IF upper \notin DOMAIN HOOK_TYPES THEN registerPluginHooks(st, id, m, i + 1)
            ELSE LET normalizedType == HOOK_TYPES[upper]
                     entry == [pluginId |-> id, key |-> hookType,
                               callable |-> m.main /\ handler \in m.methods,
                               priority |-> HooksGet(m, hookType \o "Priority", 0)]
                     st1 == [hooks |-> [st.hooks EXCEPT ![normalizedType] =
                                            SortByPriority(Append(@, entry))],
                             order |-> Append(st.order, <<id, hookType>>)]
                 IN registerPluginHooks(st1, id, m, i + 1)

unregisterPluginHooks(hs, id) ==
    [t \in DOMAIN hs |-> SelectSeq(hs[t], LAMBDA h : h.pluginId # id)]

PmEvent(name, id, hookType) == [name |-> name, pluginId |-> id, hookType |-> hookType]

EmptyContext == [k \in {} |-> TRUE]

PmDone(op, id, ok, events) ==
    [op |-> op, id |-> id, ok |-> ok, events |-> events, invoked |-> <<>>,
     context |-> EmptyContext, result |-> EmptyContext]

\* An executeHooks call that is suspended at the await of a handler: the
\* slot it was called for, the place of its for-of loop, the entries it has
\* come to (seen) and the slot as it was at the call (start).  The loop walks
\* the array that this.hooks.get(hookType) returned; arr is that array once
\* unregisterPluginHooks has put another one into the Map (detached).
NoHookCall ==
    [active |-> FALSE, hookType |-> "", pos |-> 0, detached |-> FALSE, arr |-> <<>>,
     seen |-> <<>>, start |-> <<>>]

\* this.hooks.set(hookType, filtered): the Map gets new arrays, the call keeps its own.
Detached(call) ==
    IF call.active /\ ~call.detached
        THEN [call EXCEPT !.detached = TRUE, !.arr = hooks[call.hookType]]
    ELSE call

InitPlugins(m) ==
    /\ plugins = [id \in PluginIds |-> "absent"]
    /\ hooks = [t \in HookTypeValues |-> <<>>]
    /\ initialized = FALSE
    /\ manifests = m
    /\ regOrder = <<>>
    /\ pmOp = PmDone("new", "", TRUE, <<>>)
    /\ hookCall = NoHookCall

(***************************************************************************)
(* The plugin manager operations, each run to completion.                  *)
(***************************************************************************)
Initialize ==
    /\ ~initialized
    /\ initialized' = TRUE
    /\ pmOp' = PmDone("initialize", "", TRUE, <<>>)
    /\ UNCHANGED <<plugins, hooks, manifests, regOrder, hookCall>>
    /\ UNCHANGED nonPmVars

\* A load that does not look at the dependencies.
MissingDependencyNever(ps, deps) == FALSE

\* for (const dep of plugin.dependencies) if (!this.plugins.has(dep)) throw ...
MissingDependency(ps, deps) == \E i \in 1..Len(deps) : ps[deps[i]] = "absent"

\* load(pluginId); importOk tells whether import(mainPath) succeeds.
Load(id, importOk) ==
    LET m == manifests[id]
        reg == registerPluginHooks([hooks |-> hooks, order |-> regOrder], id, m, 1)
        rejected == \/ ~initialized
                    \/ id \notin DOMAIN manifests
                    \/ MissingDependency(plugins, m.dependencies)
                    \/ m.main /\ ~importOk
    IN /\ IF initialized /\ id \in PluginIds /\ plugins[id] # "absent"
            THEN /\ pmOp' = PmDone("load", id, TRUE, <<>>)
                 /\ UNCHANGED <<plugins, hooks, regOrder>>
          ELSE IF rejected
            THEN /\ pmOp' = PmDone("load", id, FALSE, <<>>)
                 /\ UNCHANGED <<plugins, hooks, regOrder>>
          ELSE /\ hooks' = reg.hooks
               /\ regOrder' = reg.order
               /\ plugins' = [plugins EXCEPT ![id] = STATE_LOADED]
               /\ pmOp' = PmDone("load", id, TRUE, <<PmEvent(PluginEvents.PLUGIN_LOAD, id, "")>>)
       /\ UNCHANGED <<initialized, manifests, hookCall>>
       /\ UNCHANGED nonPmVars

\* load(pluginId) up to its first await: the state check, the check of the
\* id and the look into the registry.  A call for an id the registry holds
\* returns the record; another goes on to read the manifest.
LoadCall(id) ==
    /\ initialized
    /\ Len(loads) < MaxLoads
    /\ loads' = Append(loads, [id |-> id, emitted |-> FALSE,
                               pc |-> IF plugins[id] # "absent" THEN "returned" ELSE "reading"])
    /\ UNCHANGED <<busVars, pmVars, engVars, weeklyRun, taskRun>>

\* The manifest has been read: the dependencies are looked up, then the
\* module is imported.
LoadManifest(i) ==
    /\ loads[i].pc = "reading"
    /\ loads' = [loads EXCEPT ![i].pc =
                     IF MissingDependency(plugins, manifests[loads[i].id].dependencies)
                        THEN "rejected" ELSE "importing"]
    /\ UNCHANGED <<busVars, pmVars, engVars, weeklyRun, taskRun>>

\* The module has been imported: registerPluginHooks, this.plugins.set, emit.
LoadRegister(i) ==
    LET id == loads[i].id
        reg == registerPluginHooks([hooks |-> hooks, order |-> regOrder], id, manifests[id], 1)
    IN /\ loads[i].pc = "importing"
       /\ hooks' = reg.hooks
       /\ regOrder' = reg.order
       /\ plugins' = [plugins EXCEPT ![id] = STATE_LOADED]
       /\ pmOp' = PmDone("load", id, TRUE, <<PmEvent(PluginEvents.PLUGIN_LOAD, id, "")>>)
       /\ loads' = [loads EXCEPT ![i].pc = "returned", ![i].emitted = TRUE]
       /\ UNCHANGED <<initialized, manifests, hookCall>>
       /\ UNCHANGED <<busVars, engVars, weeklyRun, taskRun>>

\* load calls made without waiting for one another.
NextLoads ==
    \/ Initialize
    \/ \E id \in PluginIds : LoadCall(id)
    \/ \E i \in 1..Len(loads) : LoadManifest(i)
    \/ \E i \in 1..Len(loads) : LoadRegister(i)

\* Some plugin of the registry lists id among its dependencies.
HasDependent(id) ==
    \E p \in PluginIds : plugins[p] # "absent" /\ id \in Range(Dependencies(p))

\* unload without the check for dependents.
UnloadUnchecked(id) ==
    /\ hooks' = unregisterPluginHooks(hooks, id)
    /\ regOrder' = SelectSeq(regOrder, LAMBDA e : e[1] # id)
    /\ plugins' = [plugins EXCEPT ![id] = "absent"]
    /\ pmOp' = PmDone("unload", id, TRUE, <<PmEvent(PluginEvents.PLUGIN_UNLOAD, id, "")>>)
    /\ hookCall' = IF TRUE THEN Detached(hookCall) ELSE hookCall
    /\ UNCHANGED <<initialized, manifests>>
    /\ UNCHANGED nonPmVars

Unload(id) ==
    /\ IF plugins[id] = "absent"
          THEN /\ pmOp' = PmDone("unload", id, TRUE, <<>>)
               /\ UNCHANGED <<plugins, hooks, regOrder>>
       ELSE IF HasDependent(id)
          THEN /\ pmOp' = PmDone("unload", id, FALSE, <<>>)
               /\ UNCHANGED <<plugins, hooks, regOrder>>
       ELSE /\ hooks' = unregisterPluginHooks(hooks, id)
            /\ regOrder' = SelectSeq(regOrder, LAMBDA e : e[1] # id)
            /\ plugins' = [plugins EXCEPT ![id] = "absent"]
            /\ pmOp' = PmDone("unload", id, TRUE,
                              <<PmEvent(PluginEvents.PLUGIN_UNLOAD, id, "")>>)
    /\ hookCall' = IF plugins[id] # "absent" /\ ~HasDependent(id) THEN Detached(hookCall) ELSE hookCall
    /\ UNCHANGED <<initialized, manifests>>
    /\ UNCHANGED nonPmVars

\* enable(pluginId) on st = [ps, events, ok]; the plugins in fails are those
\* whose onEnable throws.
RECURSIVE enable(_, _, _)
RECURSIVE EnableDependencies(_, _, _, _)
EnableDependencies(st, deps, i, fails) ==
    IF i > Len(deps) \/ ~st.ok THEN st
    ELSE EnableDependencies(enable(st, deps[i], fails), deps, i + 1, fails)

enable(st, id, fails) ==
    IF st.ps[id] = "absent" THEN [st EXCEPT !.ok = FALSE]
    ELSE IF st.ps[id] = STATE_ENABLED THEN st
    ELSE LET st1 == EnableDependencies(st, Dependencies(id), 1, fails)
         IN IF ~st1.ok THEN st1
            ELSE IF "onEnable" \in manifests[id].methods /\ id \in fails
                THEN [st1 EXCEPT !.ok = FALSE]
            ELSE [st1 EXCEPT !.ps[id] = STATE_ENABLED,
                             !.events = Append(@, PmEvent(PluginEvents.PLUGIN_ENABLE, id, ""))]

Enable(id, fails) ==
    LET r == enable([ps |-> plugins, events |-> <<>>, ok |-> TRUE], id, fails)
    IN /\ plugins' = r.ps
       /\ pmOp' = PmDone("enable", id, r.ok, r.events)
       /\ UNCHANGED <<hooks, initialized, manifests, regOrder, hookCall>>
       /\ UNCHANGED nonPmVars

Disable(id) ==
    /\ IF plugins[id] # STATE_ENABLED
          THEN /\ pmOp' = PmDone("disable", id, TRUE, <<>>)
               /\ UNCHANGED plugins
       ELSE /\ plugins' = [plugins EXCEPT ![id] = STATE_DISABLED]
            /\ pmOp' = PmDone("disable", id, TRUE,
                              <<PmEvent(PluginEvents.PLUGIN_DISABLE, id, "")>>)
    /\ UNCHANGED <<hooks, initialized, manifests, regOrder, hookCall>>
    /\ UNCHANGED nonPmVars

\* executeHooks(hookType) up to the await of the first handler it comes to.
HooksCall(hookType) ==
    /\ ~hookCall.active
    /\ hookCall.start = <<>>
    /\ hooks[hookType] # <<>>
    /\ hookCall' = [NoHookCall EXCEPT !.active = TRUE, !.hookType = hookType, !.pos = 1,
                                      !.seen = <<hooks[hookType][1]>>,
                                      !.start = hooks[hookType]]
    /\ UNCHANGED <<plugins, hooks, initialized, manifests, regOrder, pmOp>>
    /\ UNCHANGED nonPmVars

\* The handler returns and the loop goes to the next index of its array.
HooksNext ==
    LET array == IF hookCall.detached THEN hookCall.arr ELSE hooks[hookCall.hookType]
    IN /\ hookCall.active
       /\ hookCall' = IF hookCall.pos + 1 > Len(array)
                          THEN [hookCall EXCEPT !.active = FALSE]
                       ELSE [hookCall EXCEPT !.pos = @ + 1,
                                             !.seen = Append(@, array[hookCall.pos + 1])]
       /\ UNCHANGED <<plugins, hooks, initialized, manifests, regOrder, pmOp>>
       /\ UNCHANGED nonPmVars

\* Plugins loaded, enabled and unloaded while an executeHooks call is under way.
NextHooks ==
    \/ Initialize
    \/ \E id \in PluginIds : Load(id, TRUE)
    \/ \E id \in PluginIds : Unload(id)
    \/ \E id \in PluginIds : Enable(id, {})
    \/ \E hookType \in HookTypeValues : HooksCall(hookType)
    \/ HooksNext

(***************************************************************************)
(* executeHooks.  A context is a function from its keys to their values;   *)
(* what a handler does when called is chosen per call.                     *)
(***************************************************************************)
HookBehaviours == {"undef", "ret", "stop", "cancel", "throw"}

StopContext == [k \in {"stopOnError"} |-> TRUE]

Contexts == {EmptyContext, StopContext}

\* { ...a, ...b }
Merge(a, b) == [k \in DOMAIN a \cup DOMAIN b |-> IF k \in DOMAIN b THEN b[k] ELSE a[k]]

\* result.stopOnError as a condition
Truthy(ctx, k) == k \in DOMAIN ctx /\ ctx[k] = TRUE

\* The value a handler returns.
HookReturn(id, b) ==
    CASE b = "ret" -> [k \in {"by"} |-> id]
      [] b = "stop" -> StopContext
      [] b = "cancel" -> [k \in {"cancelled"} |-> TRUE]

ExecStart(context) ==
    [result |-> context, invoked |-> <<>>, events |-> <<>>, ok |-> TRUE]

RECURSIVE executeHooksFrom(_, _, _, _, _)
\* The loop with a catch that never rethrows.
executeHooksNoRethrow(entries, i, hookType, beh, st) ==
    IF i > Len(entries) THEN st
    ELSE LET hook == entries[i]
             b == beh[hook.pluginId]
             call == [pluginId |-> hook.pluginId, key |-> hook.key,
                      priority |-> hook.priority, beh |-> b,
                      stopAt |-> Truthy(st.result, "stopOnError")]
         IN IF plugins[hook.pluginId] # STATE_ENABLED \/ ~hook.callable
                THEN executeHooksFrom(entries, i + 1, hookType, beh, st)
            ELSE IF b = "throw"
                THEN executeHooksFrom(entries, i + 1, hookType, beh,
                        [st EXCEPT !.invoked = Append(@, call),
                                   !.events = Append(@, PmEvent(PluginEvents.PLUGIN_ERROR,
                                                                hook.pluginId, hookType))])
            ELSE executeHooksFrom(entries, i + 1, hookType, beh,
                    [st EXCEPT !.invoked = Append(@, call),
                               !.result = IF b = "undef" THEN @
                                          ELSE Merge(@, HookReturn(hook.pluginId, b))])

\* for (const hook of hooks) { ... } from entry i on; st.ok turns FALSE when
\* the loop rethrows.
executeHooksFrom(entries, i, hookType, beh, st) ==
    IF i > Len(entries) THEN st
    ELSE LET hook == entries[i]
             b == beh[hook.pluginId]
             call == [pluginId |-> hook.pluginId, key |-> hook.key,
                      priority |-> hook.priority, beh |-> b,
                      stopAt |-> Truthy(st.result, "stopOnError")]
         IN IF plugins[hook.pluginId] # STATE_ENABLED
                THEN executeHooksFrom(entries, i + 1, hookType, beh, st)
            ELSE IF ~hook.callable
                THEN executeHooksFrom(entries, i + 1, hookType, beh, st)
            ELSE IF b = "throw"
                THEN LET st1 == [st EXCEPT !.invoked = Append(@, call),
                                           !.events = Append(@,
                                               PmEvent(PluginEvents.PLUGIN_ERROR,
                                                       hook.pluginId, hookType))]
                     IN IF Truthy(st.result, "stopOnError")
                            THEN [st1 EXCEPT !.ok = FALSE]
                        ELSE executeHooksFrom(entries, i + 1, hookType, beh, st1)
            ELSE executeHooksFrom(entries, i + 1, hookType, beh,
                    [st EXCEPT !.invoked = Append(@, call),
                               !.result = IF b = "undef" THEN @
                                          ELSE Merge(@, HookReturn(hook.pluginId, b))])

\* The behaviours of the hook handlers at one step; a plugin that is not
\* Enabled is never called.
HookChoices ==
    {beh \in [PluginIds -> HookBehaviours] :
        \A p \in PluginIds : plugins[p] # STATE_ENABLED => beh[p] = "undef"}

\* this.hooks.get(hookType) || []
HooksOf(hookType) == IF hookType \in DOMAIN hooks THEN hooks[hookType] ELSE <<>>

\* The choices for a call that runs the hooks of the given types: a plugin
\* with no entry under them has no handler the call could invoke.
HookChoicesFor(hookTypes) ==
    {beh \in HookChoices :
        \A p \in PluginIds :
            (\A t \in hookTypes : \A i \in 1..Len(HooksOf(t)) : HooksOf(t)[i].pluginId # p)
                => beh[p] = "undef"}

HookInputs == {HOOK_TYPES.BEFORE_CYCLE, HOOK_TYPES.AFTER_TASK, "custom"}

ExecuteHooks(hookType, context, beh) ==
    LET r == executeHooksFrom(HooksOf(hookType), 1, hookType, beh, ExecStart(context))
    IN /\ pmOp' = [op |-> "executeHooks", id |-> hookType, ok |-> r.ok,
                   events |-> r.events, invoked |-> r.invoked, context |-> context,
                   result |-> r.result]
       /\ UNCHANGED <<plugins, hooks, initialized, manifests, regOrder, hookCall>>
       /\ UNCHANGED nonPmVars

NextPlugins ==
    \/ Initialize
    \/ \E id \in PluginIds \cup {NoSuchPlugin}, importOk \in BOOLEAN : Load(id, importOk)
    \/ \E id \in PluginIds : Unload(id)
    \/ \E id \in PluginIds, fails \in SUBSET PluginIds : Enable(id, fails)
    \/ \E id \in PluginIds : Disable(id)
    \/ \E hookType \in HookInputs, context \in Contexts, beh \in HookChoices :
          ExecuteHooks(hookType, context, beh)

\* The plugin manager after initialize and, for each id of ids in turn, load
\* and enable.
RECURSIVE LoadAll(_, _, _, _)
LoadAll(st, m, ids, i) ==
    IF i > Len(ids) THEN st
    ELSE LoadAll(registerPluginHooks(st, ids[i], m[ids[i]], 1), m, ids, i + 1)

InitPluginsEnabled(m, ids) ==
    LET loaded == LoadAll([hooks |-> [t \in HookTypeValues |-> <<>>], order |-> <<>>],
                          m, ids, 1)
    IN /\ plugins = [id \in PluginIds |-> IF id \in Range(ids) THEN STATE_ENABLED
                                           ELSE "absent"]
       /\ hooks = loaded.hooks
       /\ initialized = TRUE
       /\ manifests = m
       /\ regOrder = loaded.order
       /\ pmOp = PmDone("enable", ids[Len(ids)], TRUE,
                        <<PmEvent(PluginEvents.PLUGIN_ENABLE, ids[Len(ids)], "")>>)
       /\ hookCall = NoHookCall


(***************************************************************************)
(* The autonomy engine (core/autonomy.js).                                 *)
(***************************************************************************)
ENGINE_STATES == [STOPPED |-> "stopped", RUNNING |-> "running", PAUSED |-> "paused",
                  ERROR |-> "error"]

CYCLE_TYPES == [DAILY |-> "daily", WEEKLY |-> "weekly", MONTHLY |-> "monthly",
                MANUAL |-> "manual"]

HDM_LEVELS == [INFORMATIONAL |-> 0, NOTIFY |-> 1, CONFIRM |-> 2, APPROVE |-> 3,
               CRITICAL |-> 4]

AutonomyEvents ==
    [ENGINE_START |-> "autonomy:engine:start", ENGINE_STOP |-> "autonomy:engine:stop",
     ENGINE_PAUSE |-> "autonomy:engine:pause", ENGINE_RESUME |-> "autonomy:engine:resume",
     CYCLE_START |-> "autonomy:cycle:start", CYCLE_END |-> "autonomy:cycle:end",
     CYCLE_SKIP |-> "autonomy:cycle:skip",
     TASK_START |-> "autonomy:task:start", TASK_END |-> "autonomy:task:end",
     TASK_ERROR |-> "autonomy:task:error",
     TRIGGER_FIRE |-> "autonomy:trigger:fire",
     TRIGGER_REGISTER |-> "autonomy:trigger:register",
     TRIGGER_UNREGISTER |-> "autonomy:trigger:unregister",
     APPROVAL_REQUIRED |-> "autonomy:approval:required"]

Task(id, level) == [id |-> id, hdmLevel |-> level]

DAILY_TASKS ==
    << Task("health-scan", 0), Task("drift-detection", 0), Task("security-sweep", 1),
       Task("financial-anomaly", 1), Task("compliance-check", 0), Task("observability", 0) >>

WEEKLY_TASKS ==
    << Task("ciw-execution", 1), Task("scorecard-refresh", 0), Task("beads-refinement", 1),
       Task("release-readiness", 1) >>

\* A monthly battery with every task at CONFIRM.
MonthlyAllConfirm ==
    << Task("architecture-audit", 2), Task("compliance-mapping", 2),
       Task("multiverse-test", 2), Task("quantum-merge", 2), Task("executive-report", 2) >>

MONTHLY_TASKS ==
    << Task("architecture-audit", 2), Task("compliance-mapping", 2),
       Task("multiverse-test", 2), Task("quantum-merge", 2), Task("executive-report", 1) >>

getTasksForCycle(cycleType) ==
    CASE cycleType = CYCLE_TYPES.DAILY -> DAILY_TASKS
      [] cycleType = CYCLE_TYPES.WEEKLY -> WEEKLY_TASKS
      [] cycleType = CYCLE_TYPES.MONTHLY -> MONTHLY_TASKS
      [] OTHER -> <<>>

\* The cycle types scheduleNextCycle has a case for.
ScheduledTypes == {CYCLE_TYPES.DAILY, CYCLE_TYPES.WEEKLY, CYCLE_TYPES.MONTHLY}

\* null, for a time or an option that is not there
Null == -1

\* options.hdmLevel as given to the constructor
HdmOptions == {Null, 0, 1}

\* options.hdmLevel || HDM_LEVELS.CONFIRM
HdmLevelOf(option) == IF option = Null \/ option = 0 THEN HDM_LEVELS.CONFIRM ELSE option

\* A gate that lets every level through.
GatedNever(level, ceiling) == FALSE

\* task.hdmLevel > this.hdmLevel, trigger.hdmLevel > this.hdmLevel
Gated(level, ceiling) == level > ceiling

\* The readings the clock can give at a step: the time stands or has moved on.
TimeReads == {now, IF now < MaxTime THEN now + 1 ELSE now}

EngEvent(name, subject) == [name |-> name, subject |-> subject]

NoFile == [exists |-> FALSE, state |-> "", lastCycleRun |-> <<>>, cycleHistory |-> <<>>,
           triggers |-> <<>>]

\* Trigger.toJSON (the model keeps no name of a trigger)
toJSON(g) ==
    [id |-> g.id, type |-> g.type, hdmLevel |-> g.hdmLevel, enabled |-> g.enabled,
     lastFired |-> g.lastFired, fireCount |-> g.fireCount]

\* Array.prototype.slice(-k)
LastK(s, k) == IF Len(s) <= k THEN s ELSE SubSeq(s, Len(s) - k + 1, Len(s))

\* saveState: what is written to state.json
StateFile(st, lcr, hist) ==
    [exists |-> TRUE, state |-> st, lastCycleRun |-> lcr,
     cycleHistory |-> LastK(hist, SAVED_HISTORY),
     triggers |-> [i \in 1..Len(triggers) |-> toJSON(triggers[i])]]

InitEngine(option) ==
    /\ engineState = ENGINE_STATES.STOPPED
    /\ hdmLevel = HdmLevelOf(option)
    /\ triggers = <<>>
    /\ trigStamps = 0
    /\ timers = [t \in ScheduledTypes |-> 0]
    /\ cycleHistory = <<>>
    /\ currentCycle = 0
    /\ lastCycleRun = [t \in ScheduledTypes |-> Null]
    /\ subscribed = 0
    /\ now = 0
    /\ cycles = <<>>
    /\ procs = <<>>
    /\ disk = NoFile
    /\ writes = <<>>

(***************************************************************************)
(* scheduleNextCycle, the weekly case.  The clock counts minutes; a day    *)
(* has HoursPerDay hours of MinutesPerHour minutes, so that the            *)
(* arithmetic of Date (getDay, setDate, setHours) is that of the source on *)
(* a small calendar.  Day 0 of the count is a Sunday (getDay() = 0).      *)
(***************************************************************************)
DayLen == HoursPerDay * MinutesPerHour

\* Date.getDay()
getDay(t) == (t \div DayLen) % 7

\* Date.setHours(hour, minute, 0, 0)
setHours(t, hour, minute) == (t \div DayLen) * DayLen + hour * MinutesPerHour + minute

\* Date.setDate(getDate() + days)
addDays(t, days) == t + days * DayLen

\* case CYCLE_TYPES.WEEKLY of scheduleNextCycle
WeeklyNextRun(t, schedule) ==
    LET rest == (schedule.dayOfWeek - getDay(t) + 7) % 7
        daysUntil == IF rest = 0 THEN 7 ELSE rest
        nextRun == setHours(addDays(t, daysUntil), schedule.hour, schedule.minute)
    IN IF nextRun <= t THEN addDays(nextRun, 7) ELSE nextRun

NotScheduled == 0 - 1

\* The task loop before its first task: the place in the battery (idx), the
\* attempt of withRetry, where the loop stands (pc), the invocations of
\* runTaskHandler that have not settled (running), and for every invocation
\* made the ones that were running when it started (started).
NoTaskRun ==
    [idx |-> 1, attempt |-> 1, pc |-> "call", running |-> {}, started |-> <<>>, late |-> 0]

Schedules == [dayOfWeek : 0..6, hour : 0..(HoursPerDay - 1), minute : 0..(MinutesPerHour - 1)]

InitSide ==
    /\ weeklyRun = [now |-> 0, schedule |-> [dayOfWeek |-> 0, hour |-> 0, minute |-> 0],
                    nextRun |-> NotScheduled]
    /\ loads = <<>>
    /\ taskRun = NoTaskRun

\* The engine constructed with a weekly schedule, at some minute of a week.
InitWeekly ==
    /\ \E t \in 0..(7 * DayLen - 1), schedule \in Schedules :
          weeklyRun = [now |-> t, schedule |-> schedule, nextRun |-> NotScheduled]
    /\ loads = <<>>
    /\ taskRun = NoTaskRun

\* scheduleNextCycle(CYCLE_TYPES.WEEKLY)
ScheduleNextWeekly ==
    /\ weeklyRun.nextRun = NotScheduled
    /\ weeklyRun' = [weeklyRun EXCEPT !.nextRun = WeeklyNextRun(weeklyRun.now, weeklyRun.schedule)]
    /\ UNCHANGED <<busVars, pmVars, engVars, loads, taskRun>>

\* The timer comes due: the clock is at nextRun, and the cycle's end schedules again.
WeeklyDue ==
    /\ weeklyRun.nextRun # NotScheduled
    /\ weeklyRun.nextRun < WeeksAhead * 7 * DayLen
    /\ weeklyRun' = [weeklyRun EXCEPT !.now = weeklyRun.nextRun, !.nextRun = NotScheduled]
    /\ UNCHANGED <<busVars, pmVars, engVars, loads, taskRun>>

NextWeekly == ScheduleNextWeekly \/ WeeklyDue

(***************************************************************************)
(* The tasks of a daily cycle with handlers that take their time:          *)
(* executeTask's withRetry(() => withTimeout(() => runTaskHandler(task)))  *)
(* step by step.  An invocation is <<place of the task, attempt>>.         *)
(***************************************************************************)
\* The places of the tasks the loop executes (the others are skipped).
Executed == {i \in 1..Len(DAILY_TASKS) : ~Gated(DAILY_TASKS[i].hdmLevel, hdmLevel)}

\* The loop goes to the next task it executes, or ends.
NextTask(run) ==
    LET rest == {i \in Executed : i > run.idx}
    IN IF rest = {} THEN [run EXCEPT !.pc = "done"]
       ELSE [run EXCEPT !.idx = CHOOSE i \in rest : \A j \in rest : i <= j,
                        !.attempt = 1, !.pc = "call"]

\* withTimeout: fn() is called, and Promise.race waits for it and for the timer.
InvokeHandler ==
    LET inv == <<taskRun.idx, taskRun.attempt>>
    IN /\ taskRun.pc = "call"
       /\ taskRun.idx \in Executed
       /\ taskRun' = [taskRun EXCEPT !.pc = "race",
                                     !.running = @ \cup {inv},
                                     !.started = Append(@, [inv |-> inv,
                                                            beside |-> taskRun.running])]
       /\ UNCHANGED <<busVars, pmVars, engVars, weeklyRun, loads>>

\* An invocation of the handler settles.  If the race still waits for it,
\* the attempt ends with it (a rejection is no TimeoutError, so there is
\* no retry) and the loop goes to the next task.
HandlerSettles(inv) ==
    /\ inv \in taskRun.running
    /\ taskRun' = IF taskRun.pc = "race" /\ inv = <<taskRun.idx, taskRun.attempt>>
                      THEN NextTask([taskRun EXCEPT !.running = @ \ {inv}])
                   ELSE [taskRun EXCEPT !.running = @ \ {inv}]
    /\ UNCHANGED <<busVars, pmVars, engVars, weeklyRun, loads>>

\* The timer of withTimeout rejects with a TimeoutError before the handler
\* has settled: withRetry sleeps and tries again, or gives up.
HandlerTimeout ==
    /\ taskRun.pc = "race"
    /\ taskRun.late < MaxLate
    /\ taskRun' = IF taskRun.attempt >= TASK_MAX_ATTEMPTS
                      THEN NextTask([taskRun EXCEPT !.late = @ + 1])
                   ELSE [taskRun EXCEPT !.late = @ + 1, !.pc = "sleep"]
    /\ UNCHANGED <<busVars, pmVars, engVars, weeklyRun, loads>>

\* await sleep(delay) is over.
RetryWake ==
    /\ taskRun.pc = "sleep"
    /\ taskRun' = [taskRun EXCEPT !.attempt = @ + 1, !.pc = "call"]
    /\ UNCHANGED <<busVars, pmVars, engVars, weeklyRun, loads>>

NextTasks ==
    \/ InvokeHandler
    \/ \E inv \in taskRun.running : HandlerSettles(inv)
    \/ HandlerTimeout
    \/ RetryWake

(***************************************************************************)
(* Engine life cycle.                                                      *)
(***************************************************************************)
Start ==
    /\ engineState # ENGINE_STATES.RUNNING
    /\ subscribed < MaxStarts
    /\ engineState' = ENGINE_STATES.RUNNING
    /\ subscribed' = subscribed + 1
    /\ timers' = [t \in ScheduledTypes |-> timers[t] + 1]
    /\ disk' = StateFile(ENGINE_STATES.RUNNING, lastCycleRun, cycleHistory)
    /\ UNCHANGED <<writes, hdmLevel, triggers, trigStamps, cycleHistory, currentCycle, lastCycleRun, now,
                   cycles, procs>>
    /\ UNCHANGED nonEngVars

Stop ==
    /\ engineState # ENGINE_STATES.STOPPED
    /\ timers' = [t \in ScheduledTypes |-> 0]
    /\ engineState' = ENGINE_STATES.STOPPED
    /\ disk' = StateFile(ENGINE_STATES.STOPPED, lastCycleRun, cycleHistory)
    /\ UNCHANGED <<writes, hdmLevel, triggers, trigStamps, cycleHistory, currentCycle, lastCycleRun, subscribed,
                   now, cycles, procs>>
    /\ UNCHANGED nonEngVars

Pause ==
    /\ engineState = ENGINE_STATES.RUNNING
    /\ engineState' = ENGINE_STATES.PAUSED
    /\ UNCHANGED <<writes, hdmLevel, triggers, trigStamps, timers, cycleHistory, currentCycle, lastCycleRun,
                   subscribed, now, cycles, procs, disk>>
    /\ UNCHANGED nonEngVars

Resume ==
    /\ engineState = ENGINE_STATES.PAUSED
    /\ engineState' = ENGINE_STATES.RUNNING
    /\ UNCHANGED <<writes, hdmLevel, triggers, trigStamps, timers, cycleHistory, currentCycle, lastCycleRun,
                   subscribed, now, cycles, procs, disk>>
    /\ UNCHANGED nonEngVars

(***************************************************************************)
(* runCycle, one step per stretch between two awaits that matter: the      *)
(* start of the call, the beforeCycle hooks, each task, the afterCycle     *)
(* hooks with the finalisation, and the saves with the rescheduling.       *)
(* A cycle record holds the call's position (pc), its report, the events   *)
(* it emitted and the tasks whose handler it invoked.                      *)
(***************************************************************************)
SkipReason == "Requires higher approval level"

NewReport(cycleType, t) ==
    [id |-> <<cycleType, t>>, type |-> cycleType, startTime |-> t, endTime |-> Null,
     tasks |-> <<>>, status |-> "running", errors |-> <<>>]

\* runCycle up to its first await; parent is the processEvent call waiting for it (0: none)
\* A cycle whose autonomy:cycle:start was not emitted.
NewCycleNoStart(cycleType, force, parent, t) ==
    [type |-> cycleType, force |-> force, pc |-> "before", idx |-> 1,
     report |-> NewReport(cycleType, t), events |-> <<>>,
     handled |-> <<>>, attempts |-> <<>>, faults |-> 0, parent |-> parent]

NewCycle(cycleType, force, parent, t) ==
    [type |-> cycleType, force |-> force, pc |-> "before", idx |-> 1,
     report |-> NewReport(cycleType, t),
     events |-> <<EngEvent(AutonomyEvents.CYCLE_START, "")>>,
     handled |-> <<>>, attempts |-> <<>>, faults |-> 0, parent |-> parent]

\* The keys of the context given to the hooks that the hooks look at.
CycleContext(cycleType) == [k \in {"cycleType"} |-> cycleType]

executeHooks(hookType, context, beh) ==
    executeHooksFrom(HooksOf(hookType), 1, hookType, beh, ExecStart(context))

RunCycle(cycleType, force, t) ==
    /\ engineState = ENGINE_STATES.RUNNING \/ force
    /\ cycles' = Append(cycles, NewCycle(cycleType, force, 0, t))
    /\ currentCycle' = Len(cycles) + 1
    /\ now' = t
    /\ UNCHANGED <<writes, engineState, hdmLevel, triggers, trigStamps, timers, cycleHistory, lastCycleRun,
                   subscribed, procs, disk>>
    /\ UNCHANGED nonEngVars

\* A timer set by scheduleNextCycle fires: () => this.runCycle(cycleType)
TimerFire(cycleType, t) ==
    /\ timers[cycleType] > 0
    /\ timers' = [timers EXCEPT ![cycleType] = @ - 1]
    /\ IF engineState = ENGINE_STATES.RUNNING
          THEN /\ cycles' = Append(cycles, NewCycle(cycleType, FALSE, 0, t))
               /\ currentCycle' = Len(cycles) + 1
               /\ now' = t
       ELSE UNCHANGED <<cycles, currentCycle, now>>
    /\ UNCHANGED <<writes, engineState, hdmLevel, triggers, trigStamps, cycleHistory, lastCycleRun,
                   subscribed, procs, disk>>
    /\ UNCHANGED nonEngVars

BeforeCycle(k, beh) ==
    LET c == cycles[k]
        r == executeHooks(HOOK_TYPES.BEFORE_CYCLE, CycleContext(c.type), beh)
    IN /\ c.pc = "before"
       /\ cycles' = [cycles EXCEPT ![k] =
             IF ~r.ok THEN [c EXCEPT !.pc = "rejected"]
             ELSE IF Truthy(r.result, "cancelled")
                 THEN [c EXCEPT !.pc = "returned",
                                !.report.status = "cancelled",
                                !.events = Append(@, EngEvent(AutonomyEvents.CYCLE_SKIP, ""))]
             ELSE [c EXCEPT !.pc = "tasks"]]
       /\ UNCHANGED <<writes, engineState, hdmLevel, triggers, trigStamps, timers, cycleHistory, currentCycle,
                      lastCycleRun, subscribed, now, procs, disk>>
       /\ UNCHANGED nonEngVars

TaskEntry(id, status, reason, error) ==
    [id |-> id, status |-> status, reason |-> reason, error |-> error]

AttemptOutcomes == {"ok", "throw", "timeout"}

\* A shouldRetry that retries after any error.
shouldRetryAny(err) == TRUE

\* shouldRetry: (err) => err instanceof TimeoutError
shouldRetry(err) == err = "timeout"

\* withRetry from attempt on; outcomes[n] is what the n-th call of fn comes
\* to.  The result tells the attempts made and how the last of them ended.
RECURSIVE withRetry(_, _, _)
withRetry(outcomes, attempt, maxAttempts) ==
    IF attempt > maxAttempts THEN [tried |-> maxAttempts, last |-> outcomes[maxAttempts]]
    ELSE IF outcomes[attempt] = "ok" THEN [tried |-> attempt, last |-> "ok"]
    ELSE IF attempt >= maxAttempts \/ ~shouldRetry(outcomes[attempt])
        THEN [tried |-> attempt, last |-> outcomes[attempt]]
    ELSE withRetry(outcomes, attempt + 1, maxAttempts)

\* executeTask(task): o1 and o2 are what the first and the second attempt of
\* the task handler come to.
executeTask(c, task, beh, o1, o2) ==
    LET before == executeHooks(HOOK_TYPES.BEFORE_TASK, EmptyContext, beh)
        after == executeHooks(HOOK_TYPES.AFTER_TASK, EmptyContext, beh)
        outcomes == <<o1, o2>>
        retry == withRetry(outcomes, 1, TASK_MAX_ATTEMPTS)
        last == retry.last
        status == IF last = "ok" THEN "completed" ELSE "error"
        error == CASE last = "ok" -> ""
                   [] last = "throw" -> "handler failed"
                   [] last = "timeout" -> "Task timed out"
        c1 == [c EXCEPT !.events = Append(@, EngEvent(AutonomyEvents.TASK_START, task.id))]
        c2 == [c1 EXCEPT !.handled = @ \o [n \in 1..retry.tried |-> task.id],
                         !.attempts = @ \o [n \in 1..retry.tried |->
                                                [id |-> task.id, outcome |-> outcomes[n]]],
                         !.faults = IF o1 = "ok" THEN @ ELSE @ + 1,
                         !.events = IF status = "error"
                                    THEN Append(@, EngEvent(AutonomyEvents.TASK_ERROR, task.id))
                                    ELSE @]
    IN IF ~before.ok THEN [c1 EXCEPT !.pc = "rejected"]
       ELSE IF ~after.ok THEN [c2 EXCEPT !.pc = "rejected"]
       ELSE [c2 EXCEPT !.events = Append(@, EngEvent(AutonomyEvents.TASK_END, task.id)),
                       !.report.tasks = Append(@, TaskEntry(task.id, status, "", error)),
                       !.report.errors = IF status = "error" THEN Append(@, error) ELSE @,
                       !.idx = @ + 1]

\* One pass of the loop over the tasks of the cycle.
TaskStep(k, beh, o1, o2) ==
    LET c == cycles[k]
        tasks == getTasksForCycle(c.type)
        task == tasks[c.idx]
    IN /\ c.pc = "tasks"
       /\ c.idx <= Len(tasks)
       /\ o1 = "ok" \/ c.faults < MaxFaults
       /\ o1 # "timeout" => o2 = "ok"
       /\ Gated(task.hdmLevel, hdmLevel) => o1 = "ok" /\ \A p \in PluginIds : beh[p] = "undef"
       /\ cycles' = [cycles EXCEPT ![k] =
             IF Gated(task.hdmLevel, hdmLevel)
                 THEN [c EXCEPT !.events = Append(@, EngEvent(AutonomyEvents.APPROVAL_REQUIRED,
                                                             task.id)),
                                !.report.tasks = Append(@, TaskEntry(task.id, "skipped",
                                                                     SkipReason, "")),
                                !.idx = @ + 1]
             ELSE executeTask(c, task, beh, o1, o2)]
       /\ UNCHANGED <<writes, engineState, hdmLevel, triggers, trigStamps, timers, cycleHistory, currentCycle,
                      lastCycleRun, subscribed, now, procs, disk>>
       /\ UNCHANGED nonEngVars

\* this.cycleHistory.push(report); if (length > maxHistory) shift()
PushCycleHistory(hist, report) ==
    LET pushed == Append(hist, report)
    IN IF Len(pushed) > ENGINE_MAX_HISTORY THEN Tail(pushed) ELSE pushed

\* A final status that does not look at the errors.
FinalStatusCompleted(errors) == "completed"

\* cycleReport.errors.length > 0 ? 'completed_with_errors' : 'completed'
FinalStatus(errors) == IF Len(errors) > 0 THEN "completed_with_errors" ELSE "completed"

\* The afterCycle hooks and the finalisation of the report.
AfterCycle(k, beh, t) ==
    LET c == cycles[k]
        r == executeHooks(HOOK_TYPES.AFTER_CYCLE, CycleContext(c.type), beh)
        report == [c.report EXCEPT !.endTime = t,
                                   !.status = FinalStatus(c.report.errors)]
    IN /\ c.pc = "tasks"
       /\ c.idx > Len(getTasksForCycle(c.type))
       /\ IF ~r.ok
             THEN /\ cycles' = [cycles EXCEPT ![k].pc = "rejected"]
                  /\ UNCHANGED <<lastCycleRun, cycleHistory, now>>
          ELSE /\ cycles' = [cycles EXCEPT ![k] =
                     [c EXCEPT !.report = report, !.pc = "finish",
                               !.events = Append(@, EngEvent(AutonomyEvents.CYCLE_END, ""))]]
               /\ lastCycleRun' = [x \in DOMAIN lastCycleRun \cup {c.type} |->
                                      IF x = c.type THEN t ELSE lastCycleRun[x]]
               /\ cycleHistory' = PushCycleHistory(cycleHistory, report)
               /\ now' = t
       /\ UNCHANGED <<writes, engineState, hdmLevel, triggers, trigStamps, timers, currentCycle, subscribed,
                      procs, disk>>
       /\ UNCHANGED nonEngVars

\* saveCycleReport, saveState, currentCycle = null, scheduleNextCycle(cycleType);
\* scheduleNextCycle has no case for a type outside ScheduledTypes and fails on it.
\* written tells whether the fs.writeJson calls of the two saves succeed; the
\* awaits are in no try block, so a failed write rejects runCycle there.
FinishCycle(k, written) ==
    LET c == cycles[k]
    IN /\ c.pc = "finish"
       /\ IF ~written
             THEN /\ cycles' = [cycles EXCEPT ![k].pc = "rejected"]
                  /\ UNCHANGED <<disk, currentCycle, timers>>
          ELSE /\ disk' = StateFile(engineState, lastCycleRun, cycleHistory)
               /\ currentCycle' = 0
               /\ IF c.type \in ScheduledTypes
                     THEN /\ timers' = [timers EXCEPT ![c.type] = @ + 1]
                          /\ cycles' = [cycles EXCEPT ![k].pc = "returned"]
                  ELSE /\ timers' = timers
                       /\ cycles' = [cycles EXCEPT ![k].pc = "rejected"]
       /\ UNCHANGED <<writes, engineState, hdmLevel, triggers, trigStamps, cycleHistory, lastCycleRun,
                      subscribed, now, procs>>
       /\ UNCHANGED nonEngVars

CycleIds == 1..Len(cycles)

CycleTypeValues == {CYCLE_TYPES[k] : k \in DOMAIN CYCLE_TYPES}

\* The runCycle calls of a run that go on to make a report are at most cap.
Room(cap) == Len(cycles) < cap

NextCycle ==
    \/ Start
    \/ Stop
    \/ \E cycleType \in CycleTypeValues, force \in BOOLEAN, t \in TimeReads :
          Room(MaxCycles) /\ RunCycle(cycleType, force, t)
    \/ \E cycleType \in ScheduledTypes, t \in TimeReads :
          Room(MaxCycles) /\ TimerFire(cycleType, t)
    \/ \E k \in CycleIds, beh \in HookChoicesFor({HOOK_TYPES.BEFORE_CYCLE}) :
          BeforeCycle(k, beh)
    \/ \E k \in CycleIds, beh \in HookChoicesFor({HOOK_TYPES.BEFORE_TASK, HOOK_TYPES.AFTER_TASK}),
             o1, o2 \in AttemptOutcomes :
          TaskStep(k, beh, o1, o2)
    \/ \E k \in CycleIds, beh \in HookChoicesFor({HOOK_TYPES.AFTER_CYCLE}), t \in TimeReads :
          AfterCycle(k, beh, t)
    \/ \E k \in CycleIds, written \in BOOLEAN : FinishCycle(k, written)

\* Cycles side by side: forced calls and timers, daily and weekly, no plugin.
NextOverlap ==
    \/ Start
    \/ \E cycleType \in {CYCLE_TYPES.DAILY, CYCLE_TYPES.WEEKLY}, t \in TimeReads :
          Room(MaxOverlap) /\ RunCycle(cycleType, TRUE, t)
    \/ \E t \in TimeReads : Room(MaxOverlap) /\ TimerFire(CYCLE_TYPES.DAILY, t)
    \/ \E k \in CycleIds, beh \in HookChoicesFor({HOOK_TYPES.BEFORE_CYCLE}) :
          BeforeCycle(k, beh)
    \/ \E k \in CycleIds, beh \in HookChoicesFor({HOOK_TYPES.BEFORE_TASK, HOOK_TYPES.AFTER_TASK}) :
          TaskStep(k, beh, "ok", "ok")
    \/ \E k \in CycleIds, beh \in HookChoicesFor({HOOK_TYPES.AFTER_CYCLE}), t \in TimeReads :
          AfterCycle(k, beh, t)
    \/ \E k \in CycleIds : FinishCycle(k, TRUE)

(***************************************************************************)
(* Triggers and processEvent.  A name or a pattern is the sequence of its  *)
(* parts; an event carries its name and whether data.errorRate and         *)
(* data.burnRate are above the thresholds of the default triggers.         *)
(***************************************************************************)
EventOf(name, errorHigh, burnHigh) ==
    [event |-> name, errorHigh |-> errorHigh, burnHigh |-> burnHigh]

\* Events other components emit on the bus.
ExternalEvents ==
    { EventOf(<<"git", ":", "pr", ":", "merge">>, FALSE, FALSE),
      EventOf(<<"package", ":", "dependency", ":", "update">>, FALSE, FALSE),
      EventOf(<<"deploy", ":", "done">>, TRUE, TRUE) }

TriggerConfig(id, type, pattern, action, level) ==
    [id |-> id, type |-> type, pattern |-> pattern, action |-> action, hdmLevel |-> level,
     enabled |-> TRUE]

\* registerDefaultTriggers
DefaultTriggers ==
    << TriggerConfig("pr-merge", "event", <<"git", ":", "pr", ":", "merge">>,
                     "runSecuritySweep", HDM_LEVELS.NOTIFY),
       TriggerConfig("dependency-update", "event",
                     <<"package", ":", "dependency", ":", "update">>,
                     "runSecurityScan", HDM_LEVELS.CONFIRM),
       TriggerConfig("error-spike", "condition", <<"errorRate">>,
                     "alertAndDiagnose", HDM_LEVELS.NOTIFY),
       TriggerConfig("burn-rate", "condition", <<"burnRate">>,
                     "financialAlert", HDM_LEVELS.CONFIRM) >>

\* Configurations a caller registers.
CallerTriggers ==
    { TriggerConfig("deploy-watch", "event", <<"deploy", ":", "*">>, "financialAlert",
                    HDM_LEVELS.APPROVE),
      TriggerConfig("deploy-log", "event", <<"deploy", ":", "done">>, "writeLog", Null) }

\* Configurations of a caller that go wrong: a condition whose predicate
\* throws, and an action name that is the name of another engine method.
FaultyTriggers ==
    { TriggerConfig("flaky", "condition", <<"throws">>, "alertAndDiagnose", Null),
      TriggerConfig("deploy-hold", "event", <<"deploy", ":", "done">>, "pause", Null) }

\* Configurations of a caller that look at every event: wildcard patterns and
\* a condition that is true of every event.
WildcardTriggers ==
    { TriggerConfig("audit-all", "event", <<"*">>, "writeLog", Null),
      TriggerConfig("autonomy-watch", "event", <<"autonomy", ":", "*">>, "writeLog",
                    HDM_LEVELS.APPROVE),
      TriggerConfig("any-event", "condition", <<"always">>, "alertAndDiagnose", Null) }

\* new Trigger(config); stamp tells the place of the entry in the Map
NewTrigger(config, stamp) ==
    [id |-> config.id, type |-> config.type, pattern |-> config.pattern,
     action |-> config.action,
     hdmLevel |-> IF config.hdmLevel = Null THEN 0 ELSE config.hdmLevel,
     enabled |-> config.enabled, lastFired |-> Null, fireCount |-> 0, stamp |-> stamp]

TriggerIndex(trigs, id) ==
    LET at == {i \in 1..Len(trigs) : trigs[i].id = id}
    IN IF at = {} THEN 0 ELSE CHOOSE i \in at : TRUE

\* this.triggers.set(trigger.id, trigger) on st = [trigs, stamps]
registerTrigger(st, config) ==
    LET i == TriggerIndex(st.trigs, config.id)
    IN IF i > 0
          THEN [st EXCEPT !.trigs[i] = NewTrigger(config, st.trigs[i].stamp)]
       ELSE [trigs |-> Append(st.trigs, NewTrigger(config, st.stamps + 1)),
             stamps |-> st.stamps + 1]

RECURSIVE registerAll(_, _, _)
registerAll(st, configs, i) ==
    IF i > Len(configs) THEN st
    ELSE registerAll(registerTrigger(st, configs[i]), configs, i + 1)

\* Trigger.matches
matches(trigger, ev) ==
    IF ~trigger.enabled THEN FALSE
    ELSE IF trigger.type = "event"
        THEN ev.event = trigger.pattern \/ matchesPattern(ev.event, trigger.pattern)
    ELSE IF trigger.type = "condition"
        THEN \/ trigger.pattern = <<"errorRate">> /\ ev.errorHigh
             \/ trigger.pattern = <<"burnRate">> /\ ev.burnHigh
             \/ trigger.pattern = <<"always">>
    ELSE FALSE

\* this.pattern(event) throws: the predicate of the caller's condition trigger
\* reads a field that no event carries.
Throws(trigger, ev) ==
    trigger.enabled /\ trigger.type = "condition" /\ trigger.pattern = <<"throws">>

\* The names of the methods an action name can stand for.
BuiltInActions == {"runSecuritySweep", "runSecurityScan", "alertAndDiagnose", "financialAlert"}

\* typeof this[actionName] === 'function': the built-in actions and, of the
\* other methods of the engine, the one a caller's configuration names.
IsMethod(actionName) == actionName \in BuiltInActions \cup {"pause"}

\* initialize(): state.json is read when it is there, the default triggers
\* are registered, the plugin manager is initialised.
\* initialize() on st = [trigs, stamps, lastCycleRun, cycleHistory], with
\* state.json as file.
initialize(st, file) ==
    LET r == registerAll([trigs |-> st.trigs, stamps |-> st.stamps], DefaultTriggers, 1)
    IN [trigs |-> r.trigs, stamps |-> r.stamps,
        lastCycleRun |-> IF file.exists THEN file.lastCycleRun ELSE st.lastCycleRun,
        cycleHistory |-> IF file.exists THEN file.cycleHistory ELSE st.cycleHistory]

EngInitialize ==
    LET r == initialize([trigs |-> triggers, stamps |-> trigStamps,
                         lastCycleRun |-> lastCycleRun, cycleHistory |-> cycleHistory], disk)
    IN /\ r.stamps <= MaxStamps
       /\ triggers' = r.trigs
       /\ trigStamps' = r.stamps
       /\ lastCycleRun' = r.lastCycleRun
       /\ cycleHistory' = r.cycleHistory
       /\ initialized' = TRUE
       /\ UNCHANGED <<writes, engineState, hdmLevel, timers, currentCycle, subscribed, now, cycles,
                      procs, disk>>
       /\ UNCHANGED <<busVars, sideVars, plugins, hooks, manifests, regOrder, pmOp, hookCall>>

RegisterTrigger(config) ==
    LET r == registerTrigger([trigs |-> triggers, stamps |-> trigStamps], config)
    IN /\ r.stamps <= MaxStamps
       /\ triggers' = r.trigs
       /\ trigStamps' = r.stamps
       /\ UNCHANGED <<writes, engineState, hdmLevel, timers, cycleHistory, currentCycle, lastCycleRun,
                      subscribed, now, cycles, procs, disk>>
       /\ UNCHANGED nonEngVars

\* this.triggers.delete(triggerId)
unregisterTrigger(trigs, id) == SelectSeq(trigs, LAMBDA g : g.id # id)

UnregisterTrigger(id) ==
    /\ TriggerIndex(triggers, id) > 0
    /\ triggers' = unregisterTrigger(triggers, id)
    /\ UNCHANGED <<writes, engineState, hdmLevel, trigStamps, timers, cycleHistory, currentCycle,
                   lastCycleRun, subscribed, now, cycles, procs, disk>>
    /\ UNCHANGED nonEngVars

\* A processEvent call: where it stands (pc), the stamp of the entry its
\* loop visited last, the trigger whose action is due (cur), the cycle it
\* waits for, and what it did at each trigger that matched (visits, events).
NewProc(ev) ==
    [ev |-> ev, pc |-> "loop", last |-> 0, cur |-> "", wait |-> 0, visits |-> <<>>,
     events |-> <<>>, cause |-> 0, heard |-> 0]

\* The next entry of the Map at which the loop of a call does something:
\* the trigger matches, or its predicate throws.
NextMatch(trigs, last, ev) ==
    LET at == {i \in 1..Len(trigs) :
                  trigs[i].stamp > last /\ (matches(trigs[i], ev) \/ Throws(trigs[i], ev))}
    IN IF at = {} THEN 0 ELSE CHOOSE i \in at : \A j \in at : i <= j

Visit(g, gated, after) ==
    [id |-> g.id, hdmLevel |-> g.hdmLevel, gated |-> gated, action |-> "",
     before |-> [fireCount |-> g.fireCount, lastFired |-> g.lastFired],
     after |-> [fireCount |-> after.fireCount, lastFired |-> after.lastFired]]

\* The loop of processEvent from where the call stands up to its next await,
\* on st = [trigs, proc]; t is the reading of the clock.
processEventLoop(st, t) ==
    LET p == st.proc
        i == NextMatch(st.trigs, p.last, p.ev)
        g == st.trigs[i]
        fired == [g EXCEPT !.lastFired = t, !.fireCount = @ + 1]
    IN IF i = 0 THEN [st EXCEPT !.proc.pc = "returned"]
       ELSE IF Throws(g, p.ev) THEN [st EXCEPT !.proc.pc = "rejected"]
       ELSE IF Gated(g.hdmLevel, hdmLevel)
           THEN [st EXCEPT !.proc.last = g.stamp,
                           !.proc.visits = Append(@, Visit(g, TRUE, g)),
                           !.proc.events = Append(@, EngEvent(AutonomyEvents.APPROVAL_REQUIRED,
                                                              g.id))]
       ELSE [st EXCEPT !.trigs[i] = fired,
                       !.proc.last = g.stamp,
                       !.proc.pc = "action",
                       !.proc.cur = g.action,
                       !.proc.visits = Append(@, Visit(g, FALSE, fired)),
                       !.proc.events = Append(@, EngEvent(AutonomyEvents.TRIGGER_FIRE, g.id))]

\* A processEvent that does not look at the state of the engine.
processEventAnyState(trigs, ev, t) ==
    processEventLoop([trigs |-> trigs, proc |-> NewProc(ev)], t)

\* processEvent(eventData) up to its first await
processEvent(trigs, ev, t) ==
    IF engineState # ENGINE_STATES.RUNNING
        THEN [trigs |-> trigs, proc |-> [NewProc(ev) EXCEPT !.pc = "returned"]]
    ELSE processEventLoop([trigs |-> trigs, proc |-> NewProc(ev)], t)

\* emit(ev): each '*' subscription of the engine, in turn, starts a call.
RECURSIVE Deliver(_, _, _, _)
Deliver(st, n, ev, t) ==
    IF n = 0 THEN st
    ELSE LET r == processEvent(st.trigs, ev, t)
         IN Deliver([trigs |-> r.trigs, procs |-> Append(st.procs, r.proc)], n - 1, ev, t)

ExternalEvent(ev, t) ==
    LET r == Deliver([trigs |-> triggers, procs |-> procs], subscribed, ev, t)
    IN /\ subscribed > 0
       /\ Len(procs) + subscribed <= MaxEvents
       /\ triggers' = r.trigs
       /\ procs' = r.procs
       /\ now' = t
       /\ UNCHANGED <<writes, engineState, hdmLevel, trigStamps, timers, cycleHistory, currentCycle,
                      lastCycleRun, subscribed, cycles, disk>>
       /\ UNCHANGED nonEngVars

\* The parts of the names of the events processEvent emits.
PartsOf(name) ==
    IF name = AutonomyEvents.TRIGGER_FIRE THEN <<"autonomy", ":", "trigger", ":", "fire">>
    ELSE <<"autonomy", ":", "approval", ":", "required">>

\* All events a call has emitted have gone through the bus.
Heard(j) == procs[j].heard = Len(procs[j].events)

\* this.eventBus.emit(APPROVAL_REQUIRED | TRIGGER_FIRE, ...) of call j: the
\* bus hands the event to the engine's own '*' subscriptions, and each starts
\* a processEvent call for it.
OwnEvent(j, t) ==
    LET p == procs[j]
        e == p.events[p.heard + 1]
        ev == EventOf(PartsOf(e.name), FALSE, FALSE)
        r == Deliver([trigs |-> triggers, procs |-> [procs EXCEPT ![j].heard = @ + 1]],
                     subscribed, ev, t)
    IN /\ ~Heard(j)
       /\ subscribed > 0
       /\ Len(procs) + subscribed <= MaxChain
       /\ triggers' = r.trigs
       /\ procs' = [i \in 1..Len(r.procs) |->
                       IF i > Len(procs) THEN [r.procs[i] EXCEPT !.cause = j] ELSE r.procs[i]]
       /\ now' = t
       /\ UNCHANGED <<writes, engineState, hdmLevel, trigStamps, timers, cycleHistory, currentCycle,
                      lastCycleRun, subscribed, cycles, disk>>
       /\ UNCHANGED nonEngVars

\* A call goes on with its loop after an await.
ProcLoop(j, t) ==
    LET r == processEventLoop([trigs |-> triggers, proc |-> procs[j]], t)
    IN /\ procs[j].pc = "loop"
       /\ triggers' = r.trigs
       /\ procs' = [procs EXCEPT ![j] = r.proc]
       /\ now' = t
       /\ UNCHANGED <<writes, engineState, hdmLevel, trigStamps, timers, cycleHistory, currentCycle,
                      lastCycleRun, subscribed, cycles, disk>>
       /\ UNCHANGED nonEngVars

\* executeTriggerAction: runSecuritySweep starts a forced daily cycle and the
\* call waits for it; pause is the engine's pause(); the other methods return
\* at once; a name that is no method is logged as unknown.
ProcAction(j, t) ==
    LET p == procs[j]
        done == [p EXCEPT !.visits[Len(p.visits)].action =
                              IF IsMethod(p.cur) THEN p.cur ELSE ""]
    IN /\ p.pc = "action"
       /\ IF p.cur = "runSecuritySweep"
             THEN /\ cycles' = Append(cycles, NewCycle(CYCLE_TYPES.DAILY, TRUE, j, t))
                  /\ currentCycle' = Len(cycles) + 1
                  /\ now' = t
                  /\ procs' = [procs EXCEPT ![j] =
                                  [done EXCEPT !.pc = "wait", !.wait = Len(cycles) + 1]]
                  /\ UNCHANGED engineState
          ELSE /\ procs' = [procs EXCEPT ![j] = [done EXCEPT !.pc = "loop"]]
               /\ engineState' = IF p.cur = "pause" /\ engineState = ENGINE_STATES.RUNNING
                                 THEN ENGINE_STATES.PAUSED
                                 ELSE engineState
               /\ UNCHANGED <<cycles, currentCycle, now>>
       /\ UNCHANGED <<writes, hdmLevel, triggers, trigStamps, timers, cycleHistory,
                      lastCycleRun, subscribed, disk>>
       /\ UNCHANGED nonEngVars

\* The cycle a call waits for has returned or failed (the failure is logged).
ProcWake(j) ==
    /\ procs[j].pc = "wait"
    /\ cycles[procs[j].wait].pc \in {"returned", "rejected"}
    /\ procs' = [procs EXCEPT ![j].pc = "loop"]
    /\ UNCHANGED <<writes, engineState, hdmLevel, triggers, trigStamps, timers, cycleHistory,
                   currentCycle, lastCycleRun, subscribed, now, cycles, disk>>
    /\ UNCHANGED nonEngVars

ProcIds == 1..Len(procs)

NextTriggers ==
    \/ EngInitialize
    \/ Start
    \/ Pause
    \/ Resume
    \/ \E config \in CallerTriggers : RegisterTrigger(config)
    \/ \E id \in {"deploy-watch", "pr-merge"} : UnregisterTrigger(id)
    \/ \E ev \in ExternalEvents, t \in TimeReads : ExternalEvent(ev, t)
    \/ \E j \in ProcIds, t \in TimeReads : ProcLoop(j, t)
    \/ \E j \in ProcIds, t \in TimeReads :
          (procs[j].cur = "runSecuritySweep" => Room(MaxCycles)) /\ ProcAction(j, t)
    \/ \E j \in ProcIds : ProcWake(j)
    \/ engineState # ENGINE_STATES.RUNNING /\ TimerFire(CYCLE_TYPES.DAILY, now)
    \/ \E k \in CycleIds, beh \in HookChoicesFor({HOOK_TYPES.BEFORE_CYCLE}) :
          BeforeCycle(k, beh)
    \/ \E k \in CycleIds, beh \in HookChoicesFor({HOOK_TYPES.BEFORE_TASK, HOOK_TYPES.AFTER_TASK}) :
          TaskStep(k, beh, "ok", "ok")
    \/ \E k \in CycleIds, beh \in HookChoicesFor({HOOK_TYPES.AFTER_CYCLE}), t \in TimeReads :
          AfterCycle(k, beh, t)
    \/ \E k \in CycleIds : FinishCycle(k, TRUE)

\* One external event handled with wildcard triggers registered, the events
\* the engine emits going through the bus it listens on.
NextChain ==
    \/ EngInitialize
    \/ Start
    \/ \E config \in WildcardTriggers : RegisterTrigger(config)
    \/ ExternalEvent(EventOf(<<"deploy", ":", "done">>, TRUE, TRUE), MaxTime)
    \/ \E j \in ProcIds : OwnEvent(j, MaxTime)
    \/ \E j \in ProcIds : Heard(j) /\ ProcLoop(j, MaxTime)
    \/ \E j \in ProcIds : Heard(j) /\ ProcAction(j, MaxTime)

\* Events handled with the faulty configurations registered.
NextActions ==
    \/ EngInitialize
    \/ Start
    \/ \E config \in FaultyTriggers \cup {c \in CallerTriggers : c.hdmLevel = Null} :
          RegisterTrigger(config)
    \/ \E ev \in ExternalEvents, t \in TimeReads : ExternalEvent(ev, t)
    \/ \E j \in ProcIds, t \in TimeReads : ProcLoop(j, t)
    \/ \E j \in ProcIds, t \in TimeReads :
          (procs[j].cur = "runSecuritySweep" => Room(MaxCycles)) /\ ProcAction(j, t)
    \/ \E j \in ProcIds : ProcWake(j)
    \/ \E k \in CycleIds, beh \in HookChoicesFor({HOOK_TYPES.BEFORE_CYCLE}) :
          BeforeCycle(k, beh)
    \/ \E k \in CycleIds, beh \in HookChoicesFor({HOOK_TYPES.BEFORE_TASK, HOOK_TYPES.AFTER_TASK}) :
          TaskStep(k, beh, "ok", "ok")
    \/ \E k \in CycleIds, beh \in HookChoicesFor({HOOK_TYPES.AFTER_CYCLE}), t \in TimeReads :
          AfterCycle(k, beh, t)
    \/ \E k \in CycleIds : FinishCycle(k, TRUE)

(***************************************************************************)
(* saveState called while an earlier call is still writing.  saveState     *)
(* builds its snapshot at the call and hands it to fs.writeJson, which     *)
(* opens state.json for writing (the file is truncated), writes the text   *)
(* at offset 0 of its own descriptor and closes; nothing orders two calls. *)
(* FileSize counts the entries of the two arrays, the parts of the text    *)
(* whose length varies here.                                               *)
(***************************************************************************)
MaxWrites == 2

FileSize(f) == Len(f.triggers) + Len(f.cycleHistory)

Truncated == [NoFile EXCEPT !.exists = TRUE]

\* the bytes of a shorter text written over a longer one: the file keeps
\* the longer text's length and ends with its last bytes
Mixture(old) == [old EXCEPT !.state = "mixture"]

SaveState ==
    /\ Len(writes) < MaxWrites
    /\ writes' = Append(writes, [pc |-> "called",
                                 snap |-> StateFile(engineState, lastCycleRun, cycleHistory)])
    /\ UNCHANGED <<engineState, hdmLevel, triggers, trigStamps, timers, cycleHistory,
                   currentCycle, lastCycleRun, subscribed, now, cycles, procs, disk>>
    /\ UNCHANGED nonEngVars

WriteOpen(i) ==
    /\ writes[i].pc = "called"
    /\ writes' = [writes EXCEPT ![i].pc = "open"]
    /\ disk' = Truncated
    /\ UNCHANGED <<engineState, hdmLevel, triggers, trigStamps, timers, cycleHistory,
                   currentCycle, lastCycleRun, subscribed, now, cycles, procs>>
    /\ UNCHANGED nonEngVars

WriteData(i) ==
    /\ writes[i].pc = "open"
    /\ writes' = [writes EXCEPT ![i].pc = "done"]
    /\ disk' = IF FileSize(writes[i].snap) >= FileSize(disk)
               THEN writes[i].snap
               ELSE Mixture(disk)
    /\ UNCHANGED <<engineState, hdmLevel, triggers, trigStamps, timers, cycleHistory,
                   currentCycle, lastCycleRun, subscribed, now, cycles, procs>>
    /\ UNCHANGED nonEngVars

NextSave ==
    \/ disk = NoFile /\ writes = <<>> /\ EngInitialize
    \/ \E config \in CallerTriggers : RegisterTrigger(config)
    \/ \E id \in {"deploy-watch", "pr-merge"} : UnregisterTrigger(id)
    \/ SaveState
    \/ \E i \in 1..Len(writes) : WriteOpen(i)
    \/ \E i \in 1..Len(writes) : WriteData(i)

(***************************************************************************)
(* The specifications.                                                     *)
(***************************************************************************)
\* The bus alone, the plugin manager and the engine constructed beside it.
InitSpecBus == InitBus /\ InitSide /\ InitPlugins(ForkManifests) /\ InitEngine(Null)

SpecBus == InitSpecBus /\ [][NextBus]_vars

\* The plugin manager over either set of manifests, on a bus without subscribers.
InitSpecPlugins ==
    InitBus /\ InitSide /\ (\E m \in ManifestSets : InitPlugins(m)) /\ InitEngine(Null)

SpecPlugins == InitSpecPlugins /\ [][NextPlugins]_vars

\* The engine running cycles, the plugins pA and pB enabled.
InitSpecCycle ==
    /\ InitBus /\ InitSide
    /\ InitPluginsEnabled(ForkManifests, <<"pA", "pB">>)
    /\ \E option \in HdmOptions : InitEngine(option)

SpecCycle == InitSpecCycle /\ [][NextCycle]_vars

\* The engine handling events, no plugin loaded; of the timers, those that
\* come due while the engine is not running.
InitSpecTriggers ==
    /\ InitBus /\ InitSide
    /\ InitPlugins(ForkManifests)
    /\ \E option \in HdmOptions : InitEngine(option)

SpecTriggers == InitSpecTriggers /\ [][NextTriggers]_vars

\* The engine with the default hdmLevel running cycles side by side, no plugin loaded.
InitSpecOverlap == InitBus /\ InitSide /\ InitPlugins(ForkManifests) /\ InitEngine(Null)

SpecOverlap == InitSpecOverlap /\ [][NextOverlap]_vars

\* scheduleNextCycle for the weekly cycle, from every minute of a week.
InitSpecWeekly == InitBus /\ InitPlugins(ForkManifests) /\ InitEngine(Null) /\ InitWeekly

SpecWeekly == InitSpecWeekly /\ [][NextWeekly]_vars

\* Callbacks that change the subscriptions during an emit.
InitSpecDispatch == InitBus /\ InitSide /\ InitPlugins(ForkManifests) /\ InitEngine(Null)

SpecDispatch == InitSpecDispatch /\ [][NextDispatch]_vars

\* An executeHooks call suspended in its handlers while plugins come and go.
InitSpecHooks == InitBus /\ InitSide /\ InitPlugins(ForkManifests) /\ InitEngine(Null)

SpecHooks == InitSpecHooks /\ [][NextHooks]_vars

\* The task loop of a daily cycle with handlers that can be late.
InitSpecTasks == InitBus /\ InitSide /\ InitPlugins(ForkManifests) /\ InitEngine(Null)

SpecTasks == InitSpecTasks /\ [][NextTasks]_vars

\* load calls that overlap.
InitSpecLoads == InitBus /\ InitSide /\ InitPlugins(ForkManifests) /\ InitEngine(Null)

SpecLoads == InitSpecLoads /\ [][NextLoads]_vars

\* The engine hearing the events it emits while it handles an event.
InitSpecChain == InitBus /\ InitSide /\ InitPlugins(ForkManifests) /\ InitEngine(Null)

SpecChain == InitSpecChain /\ [][NextChain]_vars

\* The engine handling events with a caller's faulty triggers in its table.
InitSpecActions == InitBus /\ InitSide /\ InitPlugins(ForkManifests) /\ InitEngine(Null)

SpecActions == InitSpecActions /\ [][NextActions]_vars

\* saveState calls that overlap, between changes of the trigger table
InitSpecSave == InitBus /\ InitSide /\ InitPlugins(ForkManifests) /\ InitEngine(Null)

SpecSave == InitSpecSave /\ [][NextSave]_vars

(***************************************************************************)
(* Properties of the event bus.                                            *)
(***************************************************************************)
\* The wildcard rule as the specification words it: '*' stands for any run of
\* characters, every other character for itself.
RECURSIVE WildcardRule(_, _)
WildcardRule(n, p) ==
    IF p = <<>> THEN n = <<>>
    ELSE IF Head(p) = "*"
        THEN WildcardRule(n, Tail(p)) \/ (n # <<>> /\ WildcardRule(Tail(n), p))
    ELSE n # <<>> /\ Head(n) = Head(p) /\ WildcardRule(Tail(n), Tail(p))

EmitIds == 1..Len(busOp.emits)

\* Handler h was invoked by emit number eid through one of the given paths.
InvokedVia(eid, h, paths) ==
    \E i \in 1..Len(busOp.calls) :
        busOp.calls[i].eid = eid /\ busOp.calls[i].h = h /\ busOp.calls[i].via \in paths

\* C5: a handler registered with once(name, h) is invoked at most one time in
\* total, whatever emits follow, an emit issued from inside a handler included.
C5_OnceAtMostOnce == \A s \in Patterns \X Handlers : onceCalls[s] <= 1

C7_FaultIsolation ==
    /\ ~busOp.failed
    /\ \A i \in EmitIds : busOp.emits[i].by \in {"caller"} \cup Handlers
    /\ \A eid \in EmitIds, h \in Handlers :
          LET e == busOp.emits[eid]
          IN InvokedVia(eid, "hThrow", {"exact", "wild", "once"}) =>
               /\ (\E s \in e.onSubs : s[2] = h /\ (e.ev = s[1] \/ matchesPattern(e.ev, s[1])))
                     => InvokedVia(eid, h, {"exact", "wild"})
               /\ (\E s \in e.onceSubs : s[2] = h /\ e.ev = s[1])
                     => InvokedVia(eid, h, {"once"})

\* An emit in which a handler threw and another handler was invoked after it.
C7_Witness ==
    \E i, j \in 1..Len(busOp.calls) :
        /\ i < j
        /\ busOp.calls[i].h = "hThrow"
        /\ busOp.calls[j].h # "hThrow"
        /\ busOp.calls[j].eid = busOp.calls[i].eid

(***************************************************************************)
(* Properties of the plugin manager.                                       *)
(***************************************************************************)
\* C3: after any sequence of load, enable, disable and unload calls, every
\* plugin in state Enabled has each of its dependencies in the registry and
\* in state Enabled.
C3_EnabledDependenciesEnabled ==
    \A p \in PluginIds :
        plugins[p] = "enabled" =>
            \A d \in Range(manifests[p].dependencies) : plugins[d] = "enabled"

\* C4: unload(D) is rejected with an error whenever a plugin of the registry
\* lists D among its dependencies; D then stays in the registry, its state
\* and every hook slot are as before, and no plugin:unload event is emitted.
C4_UnloadRejectedWhileDependedOn ==
    [][\A d \in PluginIds :
          (/\ pmOp'.op = "unload"
           /\ pmOp'.id = d
           /\ \E p \in PluginIds : plugins[p] # "absent"
                                   /\ d \in Range(manifests[p].dependencies))
          => /\ ~pmOp'.ok
             /\ plugins' = plugins
             /\ plugins'[d] # "absent"
             /\ hooks' = hooks
             /\ \A i \in 1..Len(pmOp'.events) : pmOp'.events[i].name # "plugin:unload"]_vars

\* unload of an Enabled plugin was rejected because an Enabled plugin depends on it.
C4_Witness ==
    /\ pmOp.op = "unload"
    /\ ~pmOp.ok
    /\ plugins[pmOp.id] = "enabled"
    /\ \E p \in PluginIds : plugins[p] = "enabled"
                            /\ pmOp.id \in Range(manifests[p].dependencies)

\* The entries of a slot that executeHooks has a handler to call for.
EligibleEntries(hookType) ==
    {e \in Range(HooksOf(hookType)) : plugins[e.pluginId] = "enabled" /\ e.callable}

RegIndex(e) == CHOOSE i \in 1..Len(regOrder) : regOrder[i] = <<e.pluginId, e.key>>

\* Entry x is dispatched before entry y: higher priority first, equal
\* priorities in the order of registration.
DispatchedBefore(x, y) ==
    \/ x.priority > y.priority
    \/ x.priority = y.priority /\ RegIndex(x) < RegIndex(y)

SameEntry(call, e) == call.pluginId = e.pluginId /\ call.key = e.key

\* C8: executeHooks(h, ctx) invokes exactly the handlers of slot h whose plugin
\* is Enabled, one at a time, by descending priority, entries of equal priority
\* in the order they were registered; no handler of a plugin that is Loaded,
\* Disabled or absent is invoked.  (A call ended by a rethrown error has
\* invoked the leading part of that order.)
C8_HooksByPriorityEnabledOnly ==
    pmOp.op = "executeHooks" =>
        LET inv == pmOp.invoked
            elig == EligibleEntries(pmOp.id)
        IN /\ \A i \in 1..Len(inv) : \E e \in elig : SameEntry(inv[i], e)
           /\ \A i, j \in 1..Len(inv) : i < j => DispatchedBefore(inv[i], inv[j])
           /\ \A e \in elig :
                 \/ \E i \in 1..Len(inv) : SameEntry(inv[i], e)
                 \/ ~pmOp.ok /\ \A i \in 1..Len(inv) : DispatchedBefore(inv[i], e)

\* Three handlers ran: two of equal priority, registered in the order pC, pB,
\* ahead of a handler of lower priority that was registered first.
C8_Witness ==
    /\ pmOp.op = "executeHooks"
    /\ Len(pmOp.invoked) = 3
    /\ pmOp.invoked[1].pluginId = "pC"
    /\ pmOp.invoked[2].pluginId = "pB"
    /\ pmOp.invoked[1].priority = pmOp.invoked[2].priority
    /\ pmOp.invoked[3].priority < pmOp.invoked[2].priority
    /\ regOrder[1][1] = pmOp.invoked[3].pluginId

ThrownCalls == SelectSeq(pmOp.invoked, LAMBDA c : c.beh = "throw")

\* C9: for every handler that throws during executeHooks a plugin:error event
\* with the plugin id and the hook name is emitted; when the accumulated
\* context has stopOnError falsy the remaining handlers are still invoked and
\* the call returns the merged context; when it is truthy the error is
\* rethrown and no later handler is invoked.
C9_HookErrorHandling ==
    pmOp.op = "executeHooks" =>
        LET inv == pmOp.invoked
            n == Len(inv)
            rets == {i \in 1..n : inv[i].beh = "ret"}
        IN /\ Len(pmOp.events) = Len(ThrownCalls)
           /\ \A k \in 1..Len(ThrownCalls) :
                 pmOp.events[k] = [name |-> "plugin:error",
                                   pluginId |-> ThrownCalls[k].pluginId,
                                   hookType |-> pmOp.id]
           /\ \A i \in 1..n :
                 inv[i].beh = "throw" =>
                    IF inv[i].stopAt THEN ~pmOp.ok /\ i = n
                    ELSE i < n \/ pmOp.ok
           /\ ~pmOp.ok => n > 0 /\ inv[n].beh = "throw" /\ inv[n].stopAt
           /\ pmOp.ok =>
                 /\ \A e \in EligibleEntries(pmOp.id) : \E i \in 1..n : SameEntry(inv[i], e)
                 /\ DOMAIN pmOp.result =
                        DOMAIN pmOp.context
                        \cup (IF rets # {} THEN {"by"} ELSE {})
                        \cup (IF \E i \in 1..n : inv[i].beh = "stop"
                              THEN {"stopOnError"} ELSE {})
                        \cup (IF \E i \in 1..n : inv[i].beh = "cancel"
                              THEN {"cancelled"} ELSE {})
                 /\ "stopOnError" \in DOMAIN pmOp.result => pmOp.result["stopOnError"]
                 /\ rets # {} =>
                       pmOp.result["by"] = inv[CHOOSE i \in rets : \A j \in rets : j <= i].pluginId

\* A first handler threw and the call went on, a second handler set
\* stopOnError, a third handler threw and the call ended with its error.
C9_Witness ==
    /\ pmOp.op = "executeHooks"
    /\ ~pmOp.ok
    /\ Len(pmOp.invoked) = 3
    /\ pmOp.invoked[1].beh = "throw" /\ ~pmOp.invoked[1].stopAt
    /\ pmOp.invoked[2].beh = "stop"
    /\ pmOp.invoked[3].beh = "throw" /\ pmOp.invoked[3].stopAt
    /\ Len(pmOp.events) = 2

(***************************************************************************)
(* Properties of the autonomy engine.                                      *)
(***************************************************************************)
\* The tasks of cycle c that its loop has passed and that the gate holds back.
GatedPassed(c) ==
    {i \in 1..Len(getTasksForCycle(c.type)) :
        i < c.idx /\ getTasksForCycle(c.type)[i].hdmLevel > hdmLevel}

\* What C1 says of the cycles, for a given text of the reason.
GatedTasksSkipped(reason) ==
    \A k \in CycleIds :
        LET c == cycles[k]
            tasks == getTasksForCycle(c.type)
        IN /\ \A i \in 1..Len(tasks) :
                 tasks[i].hdmLevel > hdmLevel => tasks[i].id \notin Range(c.handled)
           /\ \A i \in GatedPassed(c) :
                 /\ i <= Len(c.report.tasks)
                 /\ c.report.tasks[i].id = tasks[i].id
                 /\ c.report.tasks[i].status = "skipped"
                 /\ c.report.tasks[i].reason = reason
                 /\ EngEvent(AutonomyEvents.APPROVAL_REQUIRED, tasks[i].id) \in Range(c.events)

Reports == {cycles[k].report : k \in CycleIds} \cup Range(cycleHistory)

\* C10: every cycle report, at every moment and for every outcome, has status
\* running exactly when it has no endTime, and an endTime that is there is
\* not earlier than the startTime.
C10_RunningIffNoEndTime ==
    \A r \in Reports :
        /\ r.status = "running" <=> r.endTime = Null
        /\ r.endTime # Null => r.endTime >= r.startTime

\* The visits of call j at which the gate held the trigger back.
GatedVisits(j) ==
    {n \in 1..Len(procs[j].visits) : procs[j].visits[n].hdmLevel > hdmLevel}

\* C2: for every processEvent call and every trigger that matches the event
\* with an hdmLevel above the engine's, the action is not executed, fireCount
\* and lastFired are as they were before the call came to the trigger, and
\* an autonomy:approval:required event is emitted, not autonomy:trigger:fire.
C2_GatedTriggersNotFired ==
    /\ \A j \in ProcIds : \A n \in GatedVisits(j) :
          LET v == procs[j].visits[n]
          IN /\ v.gated
             /\ v.action = ""
             /\ v.after = v.before
             /\ EngEvent(AutonomyEvents.APPROVAL_REQUIRED, v.id) \in Range(procs[j].events)
             /\ EngEvent(AutonomyEvents.TRIGGER_FIRE, v.id) \notin Range(procs[j].events)
    /\ \A i \in 1..Len(triggers) :
          triggers[i].hdmLevel > hdmLevel =>
              triggers[i].fireCount = 0 /\ triggers[i].lastFired = Null

\* A call has returned that was held back at one trigger and ran the action of another.
C2_Witness ==
    \E j \in ProcIds :
        /\ procs[j].pc = "returned"
        /\ GatedVisits(j) # {}
        /\ \E n \in 1..Len(procs[j].visits) :
              ~procs[j].visits[n].gated /\ procs[j].visits[n].action # ""

\* The cycles that have started and whose afterCycle hooks have not returned.
Executing == {k \in CycleIds : cycles[k].pc \in {"before", "tasks"}}

\* C11: two cycles of the same kind never execute at the same time: a cycle
\* of kind K does not start while an earlier cycle of kind K has not yet
\* finished its afterCycle hooks.
C11_NoSameKindOverlap ==
    \A k1, k2 \in Executing : k1 # k2 => cycles[k1].type # cycles[k2].type

\* C12: after any sequence of start, stop, pause and resume calls the bus
\* holds at most one '*' subscription of the engine, and none while the
\* engine is stopped.
C12_OneSubscriptionNoneWhenStopped ==
    /\ subscribed <= 1
    /\ engineState = ENGINE_STATES.STOPPED => subscribed = 0

\* A step in which the engine, not running, is handed an event.
EventWhileNotRunning ==
    engineState # ENGINE_STATES.RUNNING /\ Len(procs') > Len(procs)

\* A step in which a timer calls runCycle (no force) on an engine not running.
TimerWhileNotRunning ==
    /\ engineState # ENGINE_STATES.RUNNING
    /\ engineState' = engineState
    /\ \E cycleType \in ScheduledTypes : timers'[cycleType] < timers[cycleType]

AttemptsOf(c, id) == SelectSeq(c.attempts, LAMBDA a : a.id = id)

\* C14: for each executed task the handler is attempted at most 2 times; a
\* second attempt is made only if the first ended with a TimeoutError, and
\* any other failure of the first attempt ends the task at once with that
\* error.
C14_RetryOnTimeoutOnly ==
    \A k \in CycleIds :
        LET c == cycles[k]
            tasks == getTasksForCycle(c.type)
        IN \A i \in 1..Len(tasks) :
              LET tries == AttemptsOf(c, tasks[i].id)
              IN /\ Len(tries) <= 2
                 /\ Len(tries) = 2 => tries[1].outcome = "timeout"
                 /\ (Len(tries) >= 1 /\ tries[1].outcome = "throw") =>
                       /\ Len(tries) = 1
                       /\ i <= Len(c.report.tasks) =>
                             /\ c.report.tasks[i].status = "error"
                             /\ c.report.tasks[i].error = "handler failed"

\* A cycle has retried one task after a timeout.
C14_Witness ==
    \E k \in CycleIds : \E i \in 1..Len(cycles[k].report.tasks) :
        LET tries == AttemptsOf(cycles[k], cycles[k].report.tasks[i].id)
        IN Len(tries) = 2 /\ tries[1].outcome = "timeout"

\* The cycles whose report has been finalised.
Finished == {k \in CycleIds : cycles[k].report.endTime # Null}

\* The places in the report of c of the tasks whose handler failed at its last attempt.
FailedAt(c) ==
    {i \in 1..Len(c.report.tasks) :
        LET tries == AttemptsOf(c, c.report.tasks[i].id)
        IN Len(tries) > 0 /\ tries[Len(tries)].outcome # "ok"}

\* C15: a task whose handler fails (a timeout at every attempt included)
\* gets a result with status error and the error message; the tasks after
\* it are still processed; and a finished cycle has status
\* completed_with_errors exactly when a task result has status error, and
\* completed otherwise.
C15_TaskErrorsRecordedCycleGoesOn ==
    \A k \in CycleIds :
        LET c == cycles[k]
            tasks == getTasksForCycle(c.type)
        IN /\ \A i \in FailedAt(c) :
                 /\ c.report.tasks[i].status = "error"
                 /\ c.report.tasks[i].error \in {"handler failed", "Task timed out"}
                 /\ c.report.tasks[i].error \in Range(c.report.errors)
                 /\ c.idx > i
           /\ \A i \in 1..Len(c.report.tasks) :
                 c.report.tasks[i].status = "error" => i \in FailedAt(c)
           /\ k \in Finished =>
                 /\ Len(c.report.tasks) = Len(tasks)
                 /\ \A i \in 1..Len(tasks) : c.report.tasks[i].id = tasks[i].id
                 /\ c.report.status = "completed_with_errors" <=>
                        \E i \in 1..Len(tasks) : c.report.tasks[i].status = "error"
                 /\ c.report.status \in {"completed_with_errors", "completed"}

\* A daily cycle has finished whose first task timed out twice and whose
\* other tasks completed.
C15_Witness ==
    \E k \in Finished :
        /\ cycles[k].type = CYCLE_TYPES.DAILY
        /\ FailedAt(cycles[k]) = {1}
        /\ cycles[k].report.tasks[1].error = "Task timed out"
        /\ cycles[k].report.status = "completed_with_errors"
        /\ \A i \in 2..6 : cycles[k].report.tasks[i].status = "completed"

\* The autonomy:approval:required events cycle c emitted for the task id.
ApprovalsFor(c, id) ==
    SelectSeq(c.events, LAMBDA e : e = EngEvent(AutonomyEvents.APPROVAL_REQUIRED, id))

EmittedNames(op) == [i \in 1..Len(op.emits) |-> op.emits[i].ev]

MaxHistoryOptions == {1}

\* C18: for an engine constructed with option maxHistory = N the length of
\* cycleHistory never exceeds N.
C18_CycleHistoryWithinOption ==
    \A n \in MaxHistoryOptions : Len(cycleHistory) <= n

\* The cycles of kind K that completed successfully.
Succeeded(K) ==
    {k \in Finished : cycles[k].type = K /\ cycles[k].report.status = "completed"}

\* C19: at every moment, for each kind K, lastCycleRun[K] is absent or is the
\* endTime of the most recent cycle of kind K that completed successfully;
\* a cycle that was cancelled, that ended with errors or that is still
\* running does not change it.
C19_LastRunOfSuccessfulCycle ==
    \A K \in DOMAIN lastCycleRun :
        IF Succeeded(K) = {} THEN lastCycleRun[K] = Null
        ELSE /\ \E k \in Succeeded(K) : lastCycleRun[K] = cycles[k].report.endTime
             /\ \A k \in Succeeded(K) : lastCycleRun[K] >= cycles[k].report.endTime

\* A fresh engine on the same rootDir after its initialize().
Restored ==
    initialize([trigs |-> <<>>, stamps |-> 0,
                lastCycleRun |-> [t \in ScheduledTypes |-> Null], cycleHistory |-> <<>>], disk)

\* C20: after saveState on one engine, a fresh engine that runs initialize()
\* on the same rootDir has lastCycleRun equal to the saved one, cycleHistory
\* equal to the saved reports (the last 10 at most), and every trigger of the
\* snapshot registered with the same projection (id, type, hdmLevel,
\* enabled, lastFired, fireCount).
C20_RestoreEqualsSaved ==
    [][ disk' # disk =>
          /\ Restored'.lastCycleRun = lastCycleRun'
          /\ Restored'.cycleHistory = LastK(cycleHistory', SAVED_HISTORY)
          /\ \A i \in 1..Len(disk'.triggers) :
                \E j \in 1..Len(Restored'.trigs) :
                    toJSON(Restored'.trigs[j]) = disk'.triggers[i] ]_vars

(***************************************************************************)
(* saveState under overlapping calls                                       *)
(***************************************************************************)
Snapshots == {writes[i].snap : i \in 1..Len(writes)}

AllWritten == writes # <<>> /\ \A i \in 1..Len(writes) : writes[i].pc = "done"

\* C21: state.json never holds a mixture of two snapshots, and once every
\* saveState call has finished it holds the complete snapshot of one of
\* the calls (the last of the order in which they were applied).
C21_SavesAppliedInSomeOrder ==
    /\ disk.state # "mixture"
    /\ AllWritten => disk \in Snapshots

(***************************************************************************)
(* registerTrigger followed by unregisterTrigger                           *)
(***************************************************************************)
Registered(trigs) ==
    {[id |-> trigs[i].id, fireCount |-> trigs[i].fireCount, lastFired |-> trigs[i].lastFired] :
        i \in 1..Len(trigs)}

\* C22: for every configuration t, registerTrigger(t) followed by
\* unregisterTrigger(t.id) leaves the set of registered triggers, with the
\* fireCount and lastFired of each, as it was before the two calls.
C22_RegisterThenUnregisterRestores ==
    \A config \in CallerTriggers :
        LET r == registerTrigger([trigs |-> triggers, stamps |-> trigStamps], config)
        IN Registered(unregisterTrigger(r.trigs, config.id)) = Registered(triggers)

(***************************************************************************)
(* stop() and the cycles in progress                                       *)
(***************************************************************************)
\* The runCycle calls that have not returned.
InProgress == {k \in CycleIds : cycles[k].pc \in {"before", "tasks", "finish"}}

\* start() has been called and the engine is Stopped: stop() has returned.
StopReturned == subscribed > 0 /\ engineState = ENGINE_STATES.STOPPED

\* C23: stop() leaves a cycle in progress as it is, and once stop() has
\* returned and every cycle in progress has returned the engine is Stopped
\* with no scheduled-cycle timer armed, at that moment and at every later
\* moment at which it is still Stopped.
C23_StoppedHasNoTimer ==
    /\ [](StopReturned /\ InProgress = {} => \A t \in ScheduledTypes : timers[t] = 0)
    /\ [][engineState # ENGINE_STATES.STOPPED /\ engineState' = ENGINE_STATES.STOPPED
             => cycles' = cycles]_vars

(***************************************************************************)
(* The order in which one emit starts its handlers                         *)
(***************************************************************************)
\* The subscription s is one that emit(ev) dispatches to.
Dispatched(s, ev) ==
    \/ s.pat = ev
    \/ ~s.once /\ matchesPattern(ev, s.pat)

\* The places in calls of the calls that the emit itself made to handler h,
\* and the first of them.
CallsTo(calls, h) == {i \in 1..Len(calls) : calls[i].eid = 1 /\ calls[i].h = h}

FirstCall(calls, h) == CHOOSE i \in CallsTo(calls, h) : \A j \in CallsTo(calls, h) : i <= j

\* C24: within one emit the matched handlers are started in the order in
\* which their subscriptions were registered, whatever mix of exact-name,
\* wildcard and once subscriptions matched.
C24_StartedInRegistrationOrder ==
    [][busOp'.op = "emit" =>
         \A i, j \in 1..Len(subOrder) :
            /\ i < j
            /\ Dispatched(subOrder[i], busOp'.ev)
            /\ Dispatched(subOrder[j], busOp'.ev)
            /\ subOrder[i].h # subOrder[j].h
            /\ CallsTo(busOp'.calls, subOrder[i].h) # {}
            /\ CallsTo(busOp'.calls, subOrder[j].h) # {}
            => FirstCall(busOp'.calls, subOrder[i].h) < FirstCall(busOp'.calls, subOrder[j].h)]_vars

(***************************************************************************)
(* The events of a cycle, as a subscriber on 'autonomy:*' receives them    *)
(***************************************************************************)
\* The tasks of the report of c that were executed, in the order of the report.
ExecutedIds(c) ==
    LET done == SelectSeq(c.report.tasks, LAMBDA e : e.status # "skipped")
    IN [i \in 1..Len(done) |-> done[i].id]

\* The place of the task id in the battery of the cycle type (0: no task).
BatteryPlace(cycleType, id) ==
    LET tasks == getTasksForCycle(cycleType)
        at == {i \in 1..Len(tasks) : tasks[i].id = id}
    IN IF at = {} THEN 0 ELSE CHOOSE i \in at : TRUE

\* C25: in a cycle that has run to completion the first event is
\* autonomy:cycle:start and the last is autonomy:cycle:end; the task:start
\* and task:end events are, for the executed tasks in battery order, the
\* start of the task followed by its end; and no event of a task comes
\* before an event of a task that is earlier in the battery.
C25_CycleEventsInOrder ==
    \A k \in Finished :
        LET c == cycles[k]
            ev == c.events
            ids == ExecutedIds(c)
            se == SelectSeq(ev, LAMBDA e : e.name \in {AutonomyEvents.TASK_START,
                                                        AutonomyEvents.TASK_END})
        IN /\ ev[1] = EngEvent(AutonomyEvents.CYCLE_START, "")
           /\ ev[Len(ev)] = EngEvent(AutonomyEvents.CYCLE_END, "")
           /\ \A i \in 2..(Len(ev) - 1) :
                 ev[i].name \notin {AutonomyEvents.CYCLE_START, AutonomyEvents.CYCLE_END}
           /\ Len(se) = 2 * Len(ids)
           /\ \A i \in 1..Len(ids) :
                 /\ se[2 * i - 1] = EngEvent(AutonomyEvents.TASK_START, ids[i])
                 /\ se[2 * i] = EngEvent(AutonomyEvents.TASK_END, ids[i])
           /\ \A i, j \in 1..Len(ids) :
                 i < j => BatteryPlace(c.type, ids[i]) < BatteryPlace(c.type, ids[j])
           /\ \A i, j \in 2..(Len(ev) - 1) :
                 i < j => BatteryPlace(c.type, ev[i].subject) <= BatteryPlace(c.type, ev[j].subject)

\* A completed cycle that executed at least two tasks, one of which failed.
C25_Witness ==
    \E k \in Finished :
        /\ Len(ExecutedIds(cycles[k])) >= 2
        /\ \E i \in 1..Len(cycles[k].events) :
              cycles[k].events[i].name = AutonomyEvents.TASK_ERROR

(***************************************************************************)
(* The approval ceiling and the hdmLevel option                            *)
(***************************************************************************)
LevelValues == {HDM_LEVELS[n] : n \in DOMAIN HDM_LEVELS}

\* The engine is one that the constructor makes of option hdmLevel = L.
ConstructedWith(L) == hdmLevel = HdmLevelOf(L)

\* C26: an engine constructed with option hdmLevel = L, for every level L
\* of 0..4, has L as its ceiling: of the tasks its cycles have passed, those
\* with a level above L are skipped and those with a level of at most L are
\* executed.
C26_CeilingIsTheOption ==
    \A L \in LevelValues :
        ConstructedWith(L) =>
            /\ hdmLevel = L
            /\ \A k \in CycleIds :
                  LET c == cycles[k]
                      tasks == getTasksForCycle(c.type)
                  IN \A i \in 1..Len(c.report.tasks) :
                        c.report.tasks[i].status = "skipped" <=> tasks[i].hdmLevel > L

(***************************************************************************)
(* The hooks a manifest declares and the hook table                        *)
(***************************************************************************)
\* The entries of the slot of the given name that plugin p owns.
OwnedEntries(name, p) == SelectSeq(hooks[name], LAMBDA h : h.pluginId = p)

\* C27: for a plugin P of the registry, every hook that P's manifest
\* declares under a name of the closed set (beforeCycle, afterCycle,
\* beforeTask, afterTask, onTrigger, onError) has exactly one entry owned by
\* P in the slot of that name, with the priority P declares.
C27_DeclaredHooksRegistered ==
    \A p \in PluginIds :
        plugins[p] # "absent" =>
            \A i \in 1..Len(manifests[p].hooks) :
                LET name == manifests[p].hooks[i].key
                IN name \in HookTypeValues =>
                      /\ Len(OwnedEntries(name, p)) = 1
                      /\ OwnedEntries(name, p)[1].priority
                            = HooksGet(manifests[p], name \o "Priority", 0)

(***************************************************************************)
(* The recursion of enable over the dependencies                           *)
(***************************************************************************)
\* The plugins on which enable(id) goes into its loop over the dependencies.
Recursing(id) == plugins[id] \notin {"absent", STATE_ENABLED}

\* The plugins that the calls made for the plugins of S are made on.
CalledFrom(S) == UNION {Range(Dependencies(q)) : q \in {r \in S : Recursing(r)}}

RECURSIVE CalledWithin(_, _)
CalledWithin(S, n) == IF n = 0 THEN S ELSE CalledWithin(S \cup CalledFrom(S), n - 1)

\* The plugins that enable(id) calls enable on, at any depth.
EnableCalls(id) == CalledWithin(CalledFrom({id}), Cardinality(PluginIds))

\* The manifests of id's dependencies lead back to id.
RECURSIVE DependsWithin(_, _)
DependsWithin(S, n) ==
    IF n = 0 THEN S
    ELSE DependsWithin(S \cup UNION {Range(Dependencies(q)) : q \in S}, n - 1)

OnDependencyCycle(id) ==
    id \in DependsWithin(Range(Dependencies(id)), Cardinality(PluginIds))

\* C28: in every registry that load, unload, enable and disable reach,
\* enable(P) never comes back to a plugin it is still enabling, so its
\* recursion ends; and an enable of a plugin whose dependencies form a cycle
\* ends with an error.
C28_EnableTerminates ==
    /\ \A p \in PluginIds : Recursing(p) => p \notin EnableCalls(p)
    /\ \A p \in PluginIds :
          pmOp.op = "enable" /\ pmOp.id = p /\ OnDependencyCycle(p) => ~pmOp.ok

\* enable(pC) has enabled pA, pB and pC through two levels of recursion.
C28_Witness ==
    /\ pmOp.op = "enable"
    /\ pmOp.id = "pC"
    /\ pmOp.ok
    /\ Len(pmOp.events) = 3
    /\ Dependencies("pC") = <<"pB">>

(***************************************************************************)
(* The life cycle of a plugin                                              *)
(***************************************************************************)
\* Unloaded -> Loaded -> Enabled <-> Disabled -> Unloaded; a plugin that is
\* not in the registry is Unloaded.
LifeCycle ==
    { <<"absent", STATE_LOADED>>, <<STATE_LOADED, STATE_ENABLED>>,
      <<STATE_ENABLED, STATE_DISABLED>>, <<STATE_DISABLED, STATE_ENABLED>>,
      <<STATE_DISABLED, "absent">> }

\* C29: the state of a plugin changes only along Unloaded -> Loaded ->
\* Enabled <-> Disabled -> Unloaded: a plugin leaves the registry only from
\* state Disabled, never directly from Loaded or Enabled.
C29_StateChangesAlongLifeCycle ==
    [][\A p \in PluginIds :
          plugins'[p] # plugins[p] => <<plugins[p], plugins'[p]>> \in LifeCycle]_vars

(***************************************************************************)
(* state.json after the operations of the engine                           *)
(***************************************************************************)
TriggerIds == {triggers[i].id : i \in 1..Len(triggers)}

\* What saveState would write of the engine as it is.
CurrentSnapshot == StateFile(engineState, lastCycleRun, cycleHistory)

\* C30: when start, stop, pause, resume, registerTrigger, unregisterTrigger
\* or a cycle has completed, state.json holds the engine's runtime state,
\* its trigger list and its lastCycleRun as they are in memory.
C30_FileReflectsEngine ==
    [][ (\/ engineState' # engineState
         \/ initialized' = initialized /\ TriggerIds' # TriggerIds
         \/ \E k \in CycleIds : cycles[k].pc = "finish" /\ cycles'[k].pc = "returned")
        => /\ disk'.exists
           /\ disk'.state = CurrentSnapshot'.state
           /\ disk'.triggers = CurrentSnapshot'.triggers
           /\ disk'.lastCycleRun = CurrentSnapshot'.lastCycleRun ]_vars

(***************************************************************************)
(* A write that fails at the end of a cycle                                *)
(***************************************************************************)
\* C31: a cycle of a scheduled kind whose report is finalised comes to its
\* end whether or not the report and the state file can be written:
\* runCycle returns the report, currentCycle is cleared and a timer is armed
\* for that kind.
C31_CycleCompletesWithoutPersistence ==
    [][\A k \in CycleIds :
          /\ cycles[k].type \in ScheduledTypes
          /\ cycles[k].pc = "finish"
          /\ cycles'[k].pc # "finish"
          => /\ cycles'[k].pc = "returned"
             /\ cycles'[k].report.endTime # Null
             /\ cycles'[k].report.status \in {"completed", "completed_with_errors"}
             /\ currentCycle' = 0
             /\ timers'[cycles[k].type] = timers[cycles[k].type] + 1]_vars

(***************************************************************************)
(* A condition trigger whose predicate throws                              *)
(***************************************************************************)
\* The processEvent calls that are over.
ProcOver(ps, j) == ps[j].pc \in {"returned", "rejected"}

\* C32: when a processEvent call on a Running engine comes to its end, it
\* has left out no registered trigger that matches the event, whether or
\* not the predicate of a condition trigger has thrown on the way.
C32_OtherTriggersStillEvaluated ==
    [][\A j \in 1..Len(procs') :
          /\ ProcOver(procs', j)
          /\ IF j \in ProcIds THEN ~ProcOver(procs, j) ELSE engineState = ENGINE_STATES.RUNNING
          => \A i \in 1..Len(triggers') :
                ~(/\ triggers'[i].stamp > procs'[j].last
                  /\ matches(triggers'[i], procs'[j].ev)
                  /\ ~Throws(triggers'[i], procs'[j].ev))]_vars

(***************************************************************************)
(* The actions a trigger can name                                          *)
(***************************************************************************)
\* C33: executing an action whose name is not one of the four of the fixed
\* table (runSecuritySweep, runSecurityScan, alertAndDiagnose,
\* financialAlert), the name of another method of the engine included,
\* changes no state of the engine.
C33_OnlyTableActionsAct ==
    [][\A j \in ProcIds :
          /\ procs[j].pc = "action"
          /\ procs'[j].pc # "action"
          /\ procs[j].cur \notin BuiltInActions
          => UNCHANGED <<engineState, triggers, timers, cycles, currentCycle, cycleHistory,
                         lastCycleRun, disk>>]_vars

(***************************************************************************)
(* An executeHooks call while plugins are loaded and unloaded              *)
(***************************************************************************)
IsPrefix(a, b) == Len(a) <= Len(b) /\ a = SubSeq(b, 1, Len(a))

\* C34: an executeHooks call comes to the entries that its slot held when
\* the call started, each once and in that order, and to no other entry,
\* whatever is loaded or unloaded while it is suspended in a handler.
C34_HooksCallWorksOnSnapshot ==
    /\ IsPrefix(hookCall.seen, hookCall.start)
    /\ ~hookCall.active => hookCall.seen = hookCall.start

(***************************************************************************)
(* Subscribing and unsubscribing from inside a callback                    *)
(***************************************************************************)
\* The callbacks emit number e called from the listeners table.
InvokedBy(e) ==
    {busOp.calls[i].h : i \in {k \in 1..Len(busOp.calls) :
                                  busOp.calls[k].eid = e /\ busOp.calls[k].via # "once"}}

\* The callbacks the listeners table held for the event of emit number e when it began.
HeldAtStart(e) ==
    {s[2] : s \in {t \in busOp.emits[e].onSubs :
                      t[1] = busOp.emits[e].ev \/ matchesPattern(busOp.emits[e].ev, t[1])}}

\* C35: an emit invokes exactly the subscriptions that were registered for
\* its event when it began; a callback that calls on or off on the bus
\* while it is dispatched neither adds to nor removes from that set.
C35_EmitDeliversToStartSet ==
    (busOp.op = "emit" /\ ~busOp.failed) =>
        \A e \in 1..Len(busOp.emits) : InvokedBy(e) = HeldAtStart(e)

(***************************************************************************)
(* The instant of the next weekly cycle                                    *)
(***************************************************************************)
\* The instants that fall on the schedule's dayOfWeek at hour:minute.
Occurrences(schedule) ==
    {t \in 0..((WeeksAhead + 2) * 7 * DayLen) :
        /\ getDay(t) = schedule.dayOfWeek
        /\ t % DayLen = schedule.hour * MinutesPerHour + schedule.minute}

\* The earliest of them strictly after t.
NextOccurrence(t, schedule) ==
    CHOOSE u \in Occurrences(schedule) :
        u > t /\ \A v \in Occurrences(schedule) : v > t => u <= v

\* C36: the instant computed for the weekly cycle is the earliest instant
\* strictly after now that falls on dayOfWeek at hour:minute, and so is
\* never more than 7 days after now.
C36_WeeklyIsNextOccurrence ==
    weeklyRun.nextRun # NotScheduled =>
        /\ weeklyRun.nextRun = NextOccurrence(weeklyRun.now, weeklyRun.schedule)
        /\ weeklyRun.nextRun - weeklyRun.now <= 7 * DayLen

(***************************************************************************)
(* The events the engine emits while it handles an event                   *)
(***************************************************************************)
\* Call a is among the calls whose emits led to call j.
RECURSIVE LedTo(_, _)
LedTo(a, j) ==
    procs[j].cause # 0 /\ (procs[j].cause = a \/ LedTo(a, procs[j].cause))

\* C37: handling one external event terminates: the events the engine emits
\* while handling it do not start an unbounded chain of processEvent calls.
\* The loop of processEvent depends on the event and on the trigger table
\* only, so a call for the event of one of the calls that led to it repeats
\* that call, and its emit, without end; the chain is bounded only if no
\* call handles the event of a call that led to it.
C37_NoChainOfOwnEvents ==
    \A j \in 1..Len(procs) : \A a \in 1..Len(procs) :
        LedTo(a, j) => procs[a].ev.event # procs[j].ev.event

(***************************************************************************)
(* One timer per kind of cycle                                             *)
(***************************************************************************)
\* A runCycle call of the kind has not yet returned.
ExecutingKind(cycleType) == \E k \in InProgress : cycles[k].type = cycleType

\* C38: while the engine is Running and no cycle of a kind is executing,
\* exactly one timer is armed for that kind, whatever start, timer firings,
\* forced runCycle calls and cycles cancelled by a beforeCycle hook came
\* before.
C38_OneTimerPerKind ==
    engineState = ENGINE_STATES.RUNNING =>
        \A cycleType \in ScheduledTypes : ~ExecutingKind(cycleType) => timers[cycleType] = 1

(***************************************************************************)
(* load calls for the same plugin, one beside the other                    *)
(***************************************************************************)
\* The load calls for id that emitted plugin:load.
LoadEmits(id) == {i \in 1..Len(loads) : loads[i].id = id /\ loads[i].emitted}

\* C39: however load calls for one id interleave, every hook slot holds at
\* most one entry per hook the plugin declares and plugin:load is emitted
\* once for the id; a load of a loaded id registers no hooks again.
C39_ConcurrentLoadsRegisterOnce ==
    \A id \in PluginIds :
        /\ \A t \in HookTypeValues : \A i, j \in 1..Len(hooks[t]) :
              (i # j /\ hooks[t][i].pluginId = id /\ hooks[t][j].pluginId = id)
                  => hooks[t][i].key # hooks[t][j].key
        /\ Cardinality(LoadEmits(id)) <= 1

(***************************************************************************)
(* Handler invocations side by side                                        *)
(***************************************************************************)
\* C40: within a cycle at most one invocation of a task handler is in
\* progress at any moment: after a TimeoutError neither the retry nor a
\* following task starts while the timed-out invocation is still running.
C40_OneHandlerAtATime ==
    /\ Cardinality(taskRun.running) <= 1
    /\ \A n \in 1..Len(taskRun.started) : taskRun.started[n].beside = {}

====
